---- MODULE Spec2Model ----
(***************************************************************************)
(* Terminal Jarvis: the knowledge store (jarvis/rag_system.py), the text   *)
(* chunker, the task classifier (jarvis/task_automation.py), the           *)
(* conversation orchestrator (jarvis/enhanced_chat.py) and the desktop     *)
(* application's worker/queue protocol (jarvis/gui.py, desktop_app.py).    *)
(*                                                                         *)
(* One module, several specifications over the same variables:             *)
(*   SpecChunker     TextChunker.chunk_text as a pure function             *)
(*   SpecRag         RAGSystem add/delete/clear with ingestion threads     *)
(*   SpecClassifier  TaskSolver._analyze_task as a pure function            *)
(*   SpecChat        EnhancedChatSession turns, tasks and searches         *)
(*   SpecTranscript  ChatSession.save and DesktopApp.load_conversation     *)
(*   SpecGui         DesktopApp worker threads and the message queue       *)
(*   SpecSearch      RAGSystem.search over the vector index                *)
(*   SpecProcessor   DocumentProcessor.process_file and its extractors     *)
(*   SpecChunkerConfig  TextChunker construction followed by chunk_text    *)
(*   SpecExecutor    TaskExecutor operations and their subprocesses        *)
(*   SpecRecent      DesktopApp.load_model and the saved configuration     *)
(*   SpecStream      DesktopApp.process_llm_request publishing one reply   *)
(*   SpecSolver      TaskSolver.solve_task and its four resolvers          *)
(*   SpecManager     KnowledgeBaseManager add and Delete Selected          *)
(*   SpecGuiFair     SpecGui's turns under fair thread scheduling          *)
(* A specification leaves the variables of the other parts at their        *)
(* initial values.                                                         *)
(***************************************************************************)
EXTENDS Integers, Sequences, FiniteSets, TLC

VARIABLES
    \* ---- TextChunker (SpecChunker)
    ck_words,       \* len(text.split()) of the text handed to chunk_text
    ck_size,        \* TextChunker.chunk_size
    ck_overlap,     \* TextChunker.overlap
    ck_chunks,      \* the list chunk_text returned
    ck_pc,          \* "input" before the call, "done" after it
    \* ---- RAGSystem (SpecRag)
    fs,             \* the file system: canonical path -> word count of the file
    dup_policy,     \* what collection.add does with an id that is already stored
    store,          \* the Chroma collection: a set of chunk records, unique by id
    t_pc,           \* per ingestion thread: "idle", "checked" (about to add), "done"
    t_path,         \* per ingestion thread: the file_path argument
    t_doc,          \* per ingestion thread: doc_info of process_file
    t_chunks,       \* per ingestion thread: the chunk records prepared for add
    t_result,       \* per ingestion thread: the dict add_document returned
    del_result,     \* the dict the last delete_document returned
    ingested,       \* history: raw path -> chunks_added of its successful add, 0 if none
    since_live,     \* history: thread's path was ingested for the whole of its call
    overlapped,     \* history: thread's call ran while another add_document ran
    \* ---- TaskSolver._analyze_task (SpecClassifier)
    cl_text,        \* the task_description string
    cl_analysis,    \* the dict _analyze_task returned
    cl_pc,          \* "input" before the call, "done" after it
    \* ---- EnhancedChatSession (SpecChat)
    ch_enabled,     \* knowledge_base_enabled and task_automation_enabled
    ch_messages,    \* ChatSession.messages
    ch_topic,       \* conversation_context["current_topic"]
    ch_recent_searches,   \* conversation_context["recent_searches"]
    ch_completed_tasks,   \* conversation_context["completed_tasks"]
    ch_now,         \* the clock datetime.now() reads
    ch_pc,          \* "idle", or "asked" once the user's message is in the history
    ch_ret,         \* what the last get_enhanced_response returned or raised
    ch_call,        \* history: the last get_enhanced_response call and its fault
    \* ---- ChatSession.save / DesktopApp.load_conversation (SpecTranscript)
    tr_messages,    \* session.messages
    tr_chat_text,   \* the messages shown in the chat area
    tr_file,        \* the characters of the saved .jsonl file
    tr_saved,       \* history: session.messages when the file was written
    tr_pc,          \* "open", "saved", then "loaded" or "failed"
    \* ---- DesktopApp and its worker threads (SpecGui)
    g_rag,          \* rag_system and task_solver are set
    g_llm,          \* self.llm is set
    g_session,      \* "None" or the class of self.session
    g_messages,     \* self.session.messages
    g_queue,        \* message_queue
    g_send_btn,     \* state of the Send button
    g_status,       \* text of the status label
    g_current_response,   \* self.current_response, NoResponse while the attribute is unset
    g_chat_text,    \* the lines of the chat area
    g_recent_models,      \* self.recent_models
    g_config,       \* the saved configuration file
    g_loader,       \* the model loader thread: "idle" or "loading"
    g_sends,        \* send_message calls so far
    g_loads,        \* load_model calls so far
    w_pc,           \* per worker: "idle", "started", "added", "streaming", "replied"
    w_message,      \* per worker: the message argument
    w_plan,         \* per worker: the pieces stream_chat is going to yield
    w_parts,        \* per worker: response_parts
    \* ---- RAGSystem.search (SpecSearch)
    sr_store,       \* the ids of the chunks in the collection
    sr_dist,        \* chunk id -> distance of its embedding from the query's
    sr_empty_raises,      \* collection.query raises on a collection without chunks
    sr_delivered,   \* history: the ids the index delivered to the last call
    sr_results,     \* the list the last search call returned
    sr_outcome,     \* history: "none", or the last call "returned" or "raised" inside
    \* ---- DocumentProcessor.process_file (SpecProcessor)
    pf_file,        \* the file at file_path
    pf_result,      \* the dict process_file returned
    pf_pc,          \* "input" before the call, "done" after it
    \* ---- TaskExecutor (SpecExecutor)
    ex_is_windows,  \* TaskExecutor.is_windows
    ex_path,        \* os.environ["PATH"]
    ex_machine_path,      \* the machine PATH set by the PowerShell command
    ex_profile,     \* the export lines appended to the shell profile
    ex_op,          \* the operation called last and its path argument
    ex_result,      \* what it returned, Blocked when it has not returned
    \* DesktopApp: recent models and the configuration file
    rm_running,     \* the application is running
    rm_recent_models,       \* self.recent_models
    rm_current_model_path,  \* self.current_model_path, NoModel when unset
    rm_config,      \* the JSON object in ~/.jarvis_desktop.json
    rm_history,     \* the paths given to load_model so far, oldest first
    rm_op,          \* the operation that ran last
    rm_loads,       \* number of load_model calls made
    \* DesktopApp.process_llm_request: one reply on the message queue
    st_pc,          \* idle, streaming, done
    st_path,        \* "enhanced" or "plain"
    st_pieces,      \* the pieces the worker publishes
    st_put,         \* how many of them are on the queue or taken
    st_full_response,       \* full_response
    st_queue,       \* self.message_queue
    st_current_response,    \* self.current_response of this turn
    st_completed,   \* the 'complete' item has been taken
    st_complete,    \* its content
    \* TaskSolver.solve_task
    sv_pc,          \* "idle" before a call, "done" after it
    sv_task,        \* task_description
    sv_type,        \* task_analysis["task_type"]
    sv_candidates,  \* number of parameter candidates the resolver extracted
    sv_result,      \* the dict solve_task returned
    sv_calls,       \* the Task Executor operations called for the request
    \* KnowledgeBaseManager
    km_store,       \* the collection: chunk metadata with path, name, chunk_index
    km_listbox,     \* the entries of documents_listbox
    km_op,          \* the operation that ran last and its argument
    km_result       \* the dict the last delete_document returned

chunkerVars == <<ck_words, ck_size, ck_overlap, ck_chunks, ck_pc>>
ragVars == <<fs, dup_policy, store, t_pc, t_path, t_doc, t_chunks, t_result,
             del_result, ingested, since_live, overlapped>>
classifierVars == <<cl_text, cl_analysis, cl_pc>>
chatVars == <<ch_enabled, ch_messages, ch_topic, ch_recent_searches, ch_completed_tasks,
              ch_now, ch_pc, ch_ret, ch_call>>
transcriptVars == <<tr_messages, tr_chat_text, tr_file, tr_saved, tr_pc>>
guiVars == <<g_rag, g_llm, g_session, g_messages, g_queue, g_send_btn, g_status,
             g_current_response, g_chat_text, g_recent_models, g_config, g_loader,
             g_sends, g_loads, w_pc, w_message, w_plan, w_parts>>
searchVars == <<sr_store, sr_dist, sr_empty_raises, sr_delivered, sr_results, sr_outcome>>
processorVars == <<pf_file, pf_result, pf_pc>>
executorVars == <<ex_is_windows, ex_path, ex_machine_path, ex_profile, ex_op, ex_result>>
recentVars == <<rm_running, rm_recent_models, rm_current_model_path, rm_config, rm_history,
                rm_op, rm_loads>>
streamVars == <<st_pc, st_path, st_pieces, st_put, st_full_response, st_queue,
                st_current_response, st_completed, st_complete>>
solverVars == <<sv_pc, sv_task, sv_type, sv_candidates, sv_result, sv_calls>>
managerVars == <<km_store, km_listbox, km_op, km_result>>
vars == <<chunkerVars, ragVars, classifierVars, chatVars, transcriptVars, guiVars, searchVars, processorVars, executorVars, recentVars, streamVars, solverVars, managerVars>>

Min(a, b) == IF a <= b THEN a ELSE b
Max(a, b) == IF a >= b THEN a ELSE b
\* ceil(a / b) for b > 0 (\div rounds towards minus infinity)
CeilDiv(a, b) == (a + b - 1) \div b
Last(s) == s[Len(s)]

(***************************************************************************)
(* TextChunker                                                             *)
(***************************************************************************)
\* Bounds of the chunker inputs
MaxWords == 7
MaxChunkSize == 4

\* The chunk_metadata.update({...}) of one window starting at word i.
\* words[i:i + chunk_size] holds min(i + chunk_size, n) - i words.
ChunkMeta(i, n, size, index) ==
    [chunk_index |-> index,
     chunk_size  |-> Min(i + size, n) - i,
     start_word  |-> i,
     end_word    |-> Min(i + size, n)]

\* for i in range(0, len(words), chunk_size - overlap): every window of a
\* text.split() list holds at least one non-blank word, so `if chunk_text.strip()`
\* passes for each i < n.
RECURSIVE ChunkLoop(_, _, _, _, _)
ChunkLoop(i, n, size, ovl, chunks) ==
    IF i >= n THEN chunks
    ELSE ChunkLoop(i + (size - ovl), n, size, ovl,
                   Append(chunks, ChunkMeta(i, n, size, Len(chunks))))

\* Mutant: the loop stops as soon as a window has reached the last word.
RECURSIVE ChunkLoopStopAtEnd(_, _, _, _, _)
ChunkLoopStopAtEnd(i, n, size, ovl, chunks) ==
    IF i >= n THEN chunks
    ELSE IF i + size >= n THEN Append(chunks, ChunkMeta(i, n, size, Len(chunks)))
    ELSE ChunkLoopStopAtEnd(i + (size - ovl), n, size, ovl,
                            Append(chunks, ChunkMeta(i, n, size, Len(chunks))))

chunk_text_stop_at_end(n, size, ovl) == ChunkLoopStopAtEnd(0, n, size, ovl, <<>>)

\* Mutant: end_word is not clamped to len(words).
RECURSIVE ChunkLoopNoClamp(_, _, _, _, _)
ChunkLoopNoClamp(i, n, size, ovl, chunks) ==
    IF i >= n THEN chunks
    ELSE ChunkLoopNoClamp(i + (size - ovl), n, size, ovl,
                          Append(chunks, [ChunkMeta(i, n, size, Len(chunks))
                                            EXCEPT !.end_word = i + size]))

chunk_text_no_clamp(n, size, ovl) == ChunkLoopNoClamp(0, n, size, ovl, <<>>)

\* TextChunker.chunk_text on a text of n words
chunk_text(n, size, ovl) == ChunkLoop(0, n, size, ovl, <<>>)

ChunkerInit ==
    /\ ck_words \in 0..MaxWords
    /\ ck_size \in 1..MaxChunkSize
    /\ ck_overlap \in 0..(ck_size - 1)
    /\ ck_chunks = <<>>
    /\ ck_pc = "input"

ChunkText ==
    /\ ck_pc = "input"
    /\ ck_chunks' = chunk_text(ck_words, ck_size, ck_overlap)
    /\ ck_pc' = "done"
    /\ UNCHANGED <<ck_words, ck_size, ck_overlap>>

ChunkerIdle ==
    /\ ck_words = 0 /\ ck_size = 1 /\ ck_overlap = 0
    /\ ck_chunks = <<>> /\ ck_pc = "input"

(***************************************************************************)
(* DocumentProcessor and RAGSystem                                         *)
(***************************************************************************)
\* TextChunker() defaults, used by RAGSystem.__init__
DefaultChunkSize == 1000
DefaultOverlap == 200

Threads == {1, 2}

\* A path string is the sequence of its "/"-separated components, a component
\* is its stem and its suffix.
Comp(stem, suffix) == [stem |-> stem, suffix |-> suffix]
Dot == Comp(".", "")
FileA == <<Comp("a", ".txt")>>
FileB == <<Comp("b", ".TXT")>>
CanonFiles == {FileA, FileB}
\* The strings callers pass as file_path: "a.txt", "./a.txt", "b.TXT"
RawPaths == {FileA, <<Dot>> \o FileA, FileB}
\* Word counts the text of a.txt can have; b.TXT stays blank
FileWords == {500, 1500}

\* str(Path(file_path)): pathlib drops "." components
PathStr(p) ==
    LET kept == SelectSeq(p, LAMBDA c : c # Dot)
    IN  IF kept = <<>> THEN <<Dot>> ELSE kept

\* file_path.suffix.lower()
SuffixLower(p) ==
    LET s == Last(p).suffix
    IN  IF s = ".TXT" THEN ".txt" ELSE s

SupportedSuffixes ==
    {".pdf", ".docx", ".html", ".htm", ".md", ".markdown",
     ".txt", ".py", ".js", ".css", ".json", ".yaml", ".yml"}

NoDoc == [error |-> "none", path |-> <<>>, name |-> Dot, extension |-> "", word_count |-> 0]

\* DocumentProcessor.process_file: the error dict or file_info. An extraction
\* that raises returns "", which has no words, as a blank file has.
process_file(p) ==
    LET fp == PathStr(p)
    IN  IF fp \notin DOMAIN fs \/ ~fs[fp].exists
          THEN [NoDoc EXCEPT !.error = "File not found"]
        ELSE IF SuffixLower(fp) \notin SupportedSuffixes
          THEN [NoDoc EXCEPT !.error = "Unsupported file type"]
        ELSE IF fs[fp].words = 0
          THEN [NoDoc EXCEPT !.error = "No text content found"]
        ELSE [error |-> "", path |-> fp, name |-> Last(fp),
              extension |-> SuffixLower(fp), word_count |-> fs[fp].words]

\* hashlib.md5(s.encode()).hexdigest(): a tag that differs for different strings
md5(s) == <<"md5", s>>

\* An id string: a document id alone (chunk = <<>>), or f"{doc_id}_chunk_{i}"
\* (chunk = <<i>>). A 32-digit hex digest never equals a digest followed by
\* "_chunk_<i>".
PlainId(doc_id) == [prefix |-> doc_id, chunk |-> <<>>]
ChunkId(doc_id, i) == [prefix |-> doc_id, chunk |-> <<i>>]

\* collection.get(ids=[...])["ids"]
collection_get(ids) == {c.id : c \in {d \in store : d.id \in ids}}

\* Mutant: the ids are numbered from 1.
ChunkRecordsFromOne(doc_id, doc) ==
    LET chunks == chunk_text(doc.word_count, DefaultChunkSize, DefaultOverlap)
    IN  [i \in 1..Len(chunks) |->
            [id          |-> ChunkId(doc_id, i),
             path        |-> doc.path,
             name        |-> doc.name,
             chunk_index |-> chunks[i].chunk_index,
             start_word  |-> chunks[i].start_word,
             end_word    |-> chunks[i].end_word]]

\* The records add_document and add_text hand to collection.add: ids
\* doc_id_chunk_i with the chunk's metadata (the caller's metadata plus the
\* chunker's fields)
ChunkRecords(doc_id, doc) ==
    LET chunks == chunk_text(doc.word_count, DefaultChunkSize, DefaultOverlap)
    IN  [i \in 1..Len(chunks) |->
            [id          |-> ChunkId(doc_id, i - 1),
             path        |-> doc.path,
             name        |-> doc.name,
             chunk_index |-> chunks[i].chunk_index,
             start_word  |-> chunks[i].start_word,
             end_word    |-> chunks[i].end_word]]

SeqRange(s) == {s[i] : i \in 1..Len(s)}

\* collection.add(ids=..., ...): the outcome for ids that are already stored
\* depends on the installed chromadb: it raises a duplicate-id error and adds
\* nothing ("raise"), or logs a warning and skips those ids ("ignore").
collection_add(recs) ==
    LET stored == {c.id : c \in store}
        dups == {r \in SeqRange(recs) : r.id \in stored}
    IN  IF dups # {} /\ dup_policy = "raise"
          THEN [raised |-> TRUE, store |-> store]
          ELSE [raised |-> FALSE, store |-> store \cup (SeqRange(recs) \ dups)]

NoResult == [success |-> FALSE, error |-> "none", chunks_added |-> 0]
Failure(msg) == [success |-> FALSE, error |-> msg, chunks_added |-> 0]
Success(n) == [success |-> TRUE, error |-> "", chunks_added |-> n]

InFlight(t) == t_pc[t] = "checked"

RagStart ==
    /\ fs = [f \in CanonFiles |->
                [exists |-> TRUE, words |-> IF f = FileB THEN 0 ELSE 500]]
    /\ store = {}
    /\ t_pc = [t \in Threads |-> "idle"]
    /\ t_path = [t \in Threads |-> FileA]
    /\ t_doc = [t \in Threads |-> NoDoc]
    /\ t_chunks = [t \in Threads |-> <<>>]
    /\ t_result = [t \in Threads |-> NoResult]
    /\ del_result = [success |-> FALSE, chunks_deleted |-> 0]
    /\ ingested = [p \in RawPaths |-> 0]
    /\ since_live = [t \in Threads |-> FALSE]
    /\ overlapped = [t \in Threads |-> FALSE]

RagInit == RagStart /\ dup_policy \in {"raise", "ignore"}

RagIdle == RagStart /\ dup_policy = "ignore"

\* The user edits a.txt between operations.
WriteFile(n) ==
    /\ fs' = [fs EXCEPT ![FileA] = [exists |-> TRUE, words |-> n]]
    /\ fs' # fs
    /\ UNCHANGED <<dup_policy, store, t_pc, t_path, t_doc, t_chunks, t_result,
                   del_result, ingested, since_live, overlapped>>

\* add_document, lines 199-220: process_file and its error return, doc_id, the
\* existence check, chunking. process_file reads the file system only and the
\* check reads the collection only, so the two reads are taken in one step; the
\* thread then holds the records it is about to add.
AddDocumentCheck(t, p) ==
    /\ t_pc[t] = "idle"
    /\ LET doc == process_file(p)
           doc_id == md5(p)
           existing == collection_get({PlainId(doc_id)})
       IN  IF doc.error # ""
             THEN /\ t_pc' = [t_pc EXCEPT ![t] = "done"]
                  /\ t_result' = [t_result EXCEPT ![t] = Failure(doc.error)]
                  /\ UNCHANGED <<t_chunks, t_doc>>
           ELSE IF existing # {}
             THEN /\ t_pc' = [t_pc EXCEPT ![t] = "done"]
                  /\ t_result' = [t_result EXCEPT ![t] =
                                    Failure("Document already exists in knowledge base")]
                  /\ UNCHANGED <<t_chunks, t_doc>>
           ELSE /\ t_pc' = [t_pc EXCEPT ![t] = "checked"]
                /\ t_doc' = [t_doc EXCEPT ![t] = doc]
                /\ t_chunks' = [t_chunks EXCEPT ![t] = ChunkRecords(doc_id, doc)]
                /\ UNCHANGED t_result
    /\ t_path' = [t_path EXCEPT ![t] = p]
    /\ since_live' = [since_live EXCEPT ![t] = ingested[p] > 0]
    /\ overlapped' = [u \in Threads |->
                        IF u = t THEN \E v \in Threads \ {t} : InFlight(v)
                        ELSE overlapped[u] \/ InFlight(u)]
    /\ UNCHANGED <<fs, dup_policy, store, del_result, ingested>>

\* add_document, lines 222-244: encode (may raise), collection.add (may raise),
\* the success dict, or the except branch's failure dict
AddDocumentStore(t, encode_ok) ==
    /\ t_pc[t] = "checked"
    /\ LET added == collection_add(t_chunks[t])
       IN  IF ~encode_ok
             THEN /\ t_result' = [t_result EXCEPT ![t] = Failure("encode failed")]
                  /\ UNCHANGED <<store, ingested>>
           ELSE IF added.raised
             THEN /\ t_result' = [t_result EXCEPT ![t] = Failure("duplicate id")]
                  /\ UNCHANGED <<store, ingested>>
           ELSE /\ store' = added.store
                /\ t_result' = [t_result EXCEPT ![t] = Success(Len(t_chunks[t]))]
                /\ ingested' = [ingested EXCEPT ![t_path[t]] = Len(t_chunks[t])]
    /\ t_pc' = [t_pc EXCEPT ![t] = "done"]
    /\ t_chunks' = [t_chunks EXCEPT ![t] = <<>>]
    /\ t_doc' = [t_doc EXCEPT ![t] = NoDoc]
    /\ UNCHANGED <<fs, dup_policy, t_path, del_result, since_live, overlapped>>

\* The caller takes the result (KnowledgeBaseManager._handle_add_document_result)
\* and the thread with its locals is gone.
AddDocumentReturn(t) ==
    /\ t_pc[t] = "done"
    /\ t_pc' = [t_pc EXCEPT ![t] = "idle"]
    /\ t_path' = [t_path EXCEPT ![t] = FileA]
    /\ t_result' = [t_result EXCEPT ![t] = NoResult]
    /\ since_live' = [since_live EXCEPT ![t] = FALSE]
    /\ overlapped' = [overlapped EXCEPT ![t] = FALSE]
    /\ UNCHANGED <<fs, dup_policy, store, t_doc, t_chunks, del_result, ingested>>

\* The string handed to add_text: "a.txt", one word, whose digest is the one of
\* the file path "a.txt"
Texts == {[string |-> FileA, words |-> 1]}

\* add_text(text): the metadata of a text has no "path" and no "name"; a failing
\* encode or a duplicate-id error ends in the except branch with the store as
\* it was
AddText(text) ==
    /\ LET text_id == md5(text.string)
           recs == ChunkRecords(text_id, [NoDoc EXCEPT !.word_count = text.words])
           added == collection_add(recs)
       IN  /\ ~added.raised
           /\ store' = added.store
    /\ store' # store
    /\ UNCHANGED <<fs, dup_policy, t_pc, t_path, t_doc, t_chunks, t_result,
                   del_result, ingested, since_live, overlapped>>

\* delete_document: the chunks whose metadata "path" equals the given string
DeleteMatches(p) == {c \in store : c.path = p}

\* The raw paths one of whose stored chunks is in the set gone
PathsOf(gone) == {q \in RawPaths : \E c \in gone : c.id.prefix = md5(q)}

\* delete_document(file_path)
DeleteDocument(p) ==
    LET gone == DeleteMatches(p)
    IN  /\ store' = store \ gone
        /\ del_result' = [success |-> gone # {}, chunks_deleted |-> Cardinality(gone)]
        /\ ingested' = [q \in RawPaths |-> IF q \in PathsOf(gone) THEN 0 ELSE ingested[q]]
        /\ since_live' = [t \in Threads |->
                            since_live[t] /\ t_path[t] \notin PathsOf(gone)]
        /\ UNCHANGED <<fs, dup_policy, t_pc, t_path, t_doc, t_chunks, t_result,
                       overlapped>>

\* clear_knowledge_base: delete_collection and create_collection
ClearKnowledgeBase ==
    /\ store # {}
    /\ store' = {}
    /\ ingested' = [q \in RawPaths |-> 0]
    /\ since_live' = [t \in Threads |-> FALSE]
    /\ UNCHANGED <<fs, dup_policy, t_pc, t_path, t_doc, t_chunks, t_result,
                   del_result, overlapped>>

(***************************************************************************)
(* TaskSolver._analyze_task                                                *)
(***************************************************************************)
\* A string is the sequence of its characters.
UpperCase == <<"A", "B", "C", "D", "E", "F", "G", "H", "I", "J", "K", "L", "M",
               "N", "O", "P", "Q", "R", "S", "T", "U", "V", "W", "X", "Y", "Z">>
LowerCase == <<"a", "b", "c", "d", "e", "f", "g", "h", "i", "j", "k", "l", "m",
               "n", "o", "p", "q", "r", "s", "t", "u", "v", "w", "x", "y", "z">>

CharLower(c) ==
    IF \E i \in 1..Len(UpperCase) : UpperCase[i] = c
      THEN LowerCase[CHOOSE i \in 1..Len(UpperCase) : UpperCase[i] = c]
      ELSE c

\* str.lower()
str_lower(s) == [i \in 1..Len(s) |-> CharLower(s[i])]

\* Python's `keyword in text` on strings: a contiguous occurrence
Contains(keyword, text) ==
    \E i \in 1..(Len(text) - Len(keyword) + 1) :
        SubSeq(text, i, i + Len(keyword) - 1) = keyword

\* any(keyword in text for keyword in keywords)
AnyKeywordIn(keywords, text) == \E k \in keywords : Contains(k, text)

\* " ".join(words)
RECURSIVE JoinWords(_)
JoinWords(words) ==
    IF Len(words) = 0 THEN <<>>
    ELSE IF Len(words) = 1 THEN words[1]
    ELSE words[1] \o <<" ">> \o JoinWords(Tail(words))

\* task_automation.py line 337
PathKeywords ==
    {<<"a", "d", "d", " ", "t", "o", " ", "p", "a", "t", "h">>,
     <<"p", "a", "t", "h">>,
     <<"e", "n", "v", "i", "r", "o", "n", "m", "e", "n", "t", " ", "v", "a", "r", "i", "a", "b", "l", "e">>,
     <<"e", "n", "v">>}

\* task_automation.py line 341
PythonKeywords ==
    {<<"p", "y", "t", "h", "o", "n">>,
     <<"p", "i", "p">>,
     <<"v", "i", "r", "t", "u", "a", "l", " ", "e", "n", "v", "i", "r", "o", "n", "m", "e", "n", "t">>,
     <<"v", "e", "n", "v">>}

\* task_automation.py line 345
PackageKeywords ==
    {<<"i", "n", "s", "t", "a", "l", "l">>,
     <<"p", "a", "c", "k", "a", "g", "e">>,
     <<"p", "i", "p", " ", "i", "n", "s", "t", "a", "l", "l">>}

\* task_automation.py line 349
CommandKeywords ==
    {<<"r", "u", "n">>,
     <<"e", "x", "e", "c", "u", "t", "e">>,
     <<"c", "o", "m", "m", "a", "n", "d">>,
     <<"c", "m", "d">>,
     <<"p", "o", "w", "e", "r", "s", "h", "e", "l", "l">>}

Analysis(type, confidence) == [task_type |-> type, confidence |-> confidence]

\* Mutant: package installation is tested before Python setup.
analyze_task_package_first(task_description) ==
    LET task_lower == str_lower(task_description)
    IN  IF AnyKeywordIn(PathKeywords, task_lower) THEN Analysis("path_addition", "0.9")
        ELSE IF AnyKeywordIn(PackageKeywords, task_lower)
          THEN Analysis("package_installation", "0.8")
        ELSE IF AnyKeywordIn(PythonKeywords, task_lower) THEN Analysis("python_setup", "0.8")
        ELSE IF AnyKeywordIn(CommandKeywords, task_lower)
          THEN Analysis("system_command", "0.7")
        ELSE Analysis("unknown", "0.0")

\* TaskSolver._analyze_task (the context argument is not read); a confidence is
\* written as its literal
analyze_task(task_description) ==
    LET task_lower == str_lower(task_description)
    IN  IF AnyKeywordIn(PathKeywords, task_lower) THEN Analysis("path_addition", "0.9")
        ELSE IF AnyKeywordIn(PythonKeywords, task_lower) THEN Analysis("python_setup", "0.8")
        ELSE IF AnyKeywordIn(PackageKeywords, task_lower)
          THEN Analysis("package_installation", "0.8")
        ELSE IF AnyKeywordIn(CommandKeywords, task_lower)
          THEN Analysis("system_command", "0.7")
        ELSE Analysis("unknown", "0.0")

\* Bound: words per request text
MaxTextWords == 3

\* The words request texts are made of
Vocabulary ==
    {<<"a", "d", "d">>,
     <<"t", "o">>,
     <<"P", "a", "t", "h">>,
     <<"I", "n", "s", "t", "a", "l", "l">>,
     <<"n", "u", "m", "p", "y">>,
     <<"p", "Y", "t", "h", "o", "n">>,
     <<"v", "e", "n", "v">>,
     <<"r", "u", "n">>,
     <<"d", "i", "r">>,
     <<"h", "e", "l", "l", "o">>}

RequestTexts ==
    {JoinWords(ws) : ws \in UNION {[1..n -> Vocabulary] : n \in 1..MaxTextWords}}

NoAnalysis == Analysis("none", "")

ClassifierInit ==
    /\ cl_text \in RequestTexts
    /\ cl_analysis = NoAnalysis
    /\ cl_pc = "input"

AnalyzeTask ==
    /\ cl_pc = "input"
    /\ cl_analysis' = analyze_task(cl_text)
    /\ cl_pc' = "done"
    /\ UNCHANGED cl_text

ClassifierIdle ==
    /\ cl_text = <<>>
    /\ cl_analysis = NoAnalysis
    /\ cl_pc = "input"

(***************************************************************************)
(* ChatSession and EnhancedChatSession                                     *)
(***************************************************************************)
\* Bound: the turns and searches of the conversations explored, counted by the
\* clock
MaxClock == 2

\* EnhancedChatSession._is_task_request task_keywords
TaskKeywords ==
    {<<"a", "d", "d", " ", "t", "o", " ", "p", "a", "t", "h">>,
     <<"i", "n", "s", "t", "a", "l", "l">>,
     <<"r", "u", "n", " ", "c", "o", "m", "m", "a", "n", "d">>,
     <<"e", "x", "e", "c", "u", "t", "e">>,
     <<"s", "e", "t", "u", "p", " ", "p", "y", "t", "h", "o", "n">>,
     <<"c", "r", "e", "a", "t", "e", " ", "v", "i", "r", "t", "u", "a", "l", " ", "e", "n", "v", "i", "r", "o", "n", "m", "e", "n", "t">>,
     <<"i", "n", "s", "t", "a", "l", "l", " ", "p", "a", "c", "k", "a", "g", "e">>,
     <<"c", "o", "n", "f", "i", "g", "u", "r", "e">>,
     <<"s", "e", "t", " ", "u", "p">>,
     <<"f", "i", "x">>,
     <<"s", "o", "l", "v", "e">>,
     <<"d", "o", " ", "t", "h", "i", "s">>,
     <<"h", "e", "l", "p", " ", "m", "e", " ", "w", "i", "t", "h">>}

\* EnhancedChatSession._analyze_user_message, first test
ProgrammingKeywords ==
    {<<"p", "y", "t", "h", "o", "n">>,
     <<"p", "r", "o", "g", "r", "a", "m", "m", "i", "n", "g">>,
     <<"c", "o", "d", "e">>}

\* EnhancedChatSession._analyze_user_message, second test
SystemKeywords ==
    {<<"s", "y", "s", "t", "e", "m">>,
     <<"c", "o", "m", "p", "u", "t", "e", "r">>,
     <<"w", "i", "n", "d", "o", "w", "s">>}

\* EnhancedChatSession._analyze_user_message, third test
HelpKeywords ==
    {<<"h", "e", "l", "p">>,
     <<"h", "o", "w">>,
     <<"w", "h", "a", "t">>,
     <<"w", "h", "y">>}

\* The user messages of the conversations explored
UserTexts ==
    {<<"I", "n", "s", "t", "a", "l", "l", " ", "n", "u", "m", "p", "y">>,
     <<"f", "i", "x", " ", "i", "t">>,
     <<"W", "h", "a", "t", " ", "i", "s", " ", "P", "y", "t", "h", "o", "n">>,
     <<"h", "i">>}

\* What one stream_chat call yields
PieceSeqs == {<<>>, <<"Sure.">>, <<"Sure.", "See the Knowledge Base.">>}

\* A message dict of ChatSession.messages
Message(role, content) == [role |-> role, content |-> content]

\* ChatSession.add_user / add_assistant
add_message(messages, role, content) == Append(messages, Message(role, content))

\* EnhancedChatSession._analyze_user_message: the new current_topic
analyze_user_message(topic, content) ==
    LET content_lower == str_lower(content)
    IN  IF AnyKeywordIn(ProgrammingKeywords, content_lower) THEN "programming"
        ELSE IF AnyKeywordIn(SystemKeywords, content_lower) THEN "system"
        ELSE IF AnyKeywordIn(HelpKeywords, content_lower) THEN "help"
        ELSE topic

\* EnhancedChatSession._is_task_request
is_task_request(message) == AnyKeywordIn(TaskKeywords, str_lower(message))

\* What one call of task_solver.solve_task does: it raises, or returns a result
\* dict.  TaskSolver.solve_task answers an unrecognised task type with a failure.
SolverSuccess == [raises |-> FALSE, success |-> TRUE, detail |-> "Task completed"]
SolverFailure == [raises |-> FALSE, success |-> FALSE, detail |-> "Unknown error"]
SolverRaises == [raises |-> TRUE, success |-> FALSE, detail |-> "solver error"]

SolverOutcomes(task_description) ==
    IF analyze_task(task_description).task_type = "unknown"
      THEN {SolverFailure, SolverRaises}
      ELSE {SolverSuccess, SolverFailure, SolverRaises}

\* What the calls a turn makes outside the session do: the solver's outcome, the
\* context rag_system.get_context_for_query returns ("raise" when it raises),
\* the pieces the model streams, and whether the stream raises after them.  A
\* task request reaches the solver only, any other message the store and the
\* model only.
Environments(user_message) ==
    IF is_task_request(user_message)
      THEN [solver : SolverOutcomes(user_message), context : {""}, pieces : {<<>>},
            stream_raises : {FALSE}]
      ELSE [solver : {SolverFailure}, context : {"", "Source: a.txt", "raise"},
            pieces : PieceSeqs, stream_raises : BOOLEAN]

\* An entry of conversation_context["completed_tasks"]
TaskEntry(user_message, result, now) ==
    [task |-> user_message, result |-> result, timestamp |-> now]

\* What a call returns or raises, and the completed_tasks list it leaves
Outcome(raised, response, completed_tasks) ==
    [raised |-> raised, response |-> response, completed_tasks |-> completed_tasks]

\* Mutant: the task is recorded before the result is looked at.
handle_task_request_records_first(enabled, completed_tasks, user_message, env, now) ==
    IF ~enabled.task
      THEN Outcome(FALSE, <<"Task automation is not available. Please enable it first.">>,
                   completed_tasks)
    ELSE IF env.solver.raises
      THEN Outcome(FALSE, <<"Error processing task: ", env.solver.detail>>, completed_tasks)
    ELSE IF env.solver.success
      THEN Outcome(FALSE, <<"Task Completed Successfully!", env.solver.detail>>,
                   Append(completed_tasks, TaskEntry(user_message, env.solver, now)))
    ELSE Outcome(FALSE, <<"Task Failed", env.solver.detail>>,
                 Append(completed_tasks, TaskEntry(user_message, env.solver, now)))

\* EnhancedChatSession._handle_task_request
handle_task_request(enabled, completed_tasks, user_message, env, now) ==
    IF ~enabled.task
      THEN Outcome(FALSE, <<"Task automation is not available. Please enable it first.">>,
                   completed_tasks)
    ELSE IF env.solver.raises
      THEN Outcome(FALSE, <<"Error processing task: ", env.solver.detail>>, completed_tasks)
    ELSE IF env.solver.success
      THEN Outcome(FALSE, <<"Task Completed Successfully!", env.solver.detail>>,
                   Append(completed_tasks, TaskEntry(user_message, env.solver, now)))
    ELSE Outcome(FALSE, <<"Task Failed", env.solver.detail>>, completed_tasks)

\* "knowledge base" in response.lower(), a response being the pieces joined
MentionsKnowledgeBase(response) ==
    \E i \in 1..Len(response) : response[i] = "See the Knowledge Base."

\* The note of line 180
AttributionNote == "*This response was enhanced with information from the knowledge base.*"

\* The hint of line 184
TaskHint == "*I can help automate tasks. Just ask!*"

\* EnhancedChatSession._post_process_response
post_process_response(enabled, response, user_message) ==
    LET attributed ==
            IF enabled.kb /\ MentionsKnowledgeBase(response)
              THEN Append(response, AttributionNote)
              ELSE response
    IN  IF enabled.task /\ is_task_request(user_message)
          THEN Append(attributed, TaskHint)
          ELSE attributed

\* Mutant: without the try/except of get_enhanced_response a raising stream or
\* context lookup leaves the call by an exception.
get_enhanced_response_unguarded(enabled, completed_tasks, user_message, env, now) ==
    IF is_task_request(user_message)
      THEN handle_task_request(enabled, completed_tasks, user_message, env, now)
    ELSE IF enabled.kb /\ env.context = "raise"
      THEN Outcome(TRUE, <<>>, completed_tasks)
    ELSE IF env.stream_raises
      THEN Outcome(TRUE, <<>>, completed_tasks)
    ELSE Outcome(FALSE, post_process_response(enabled, env.pieces, user_message),
                 completed_tasks)

\* EnhancedChatSession.get_enhanced_response.  The prompt built from the context
\* and the topic goes to the model only; what the model streams is env.pieces.
get_enhanced_response(enabled, completed_tasks, user_message, env, now) ==
    IF is_task_request(user_message)
      THEN handle_task_request(enabled, completed_tasks, user_message, env, now)
    ELSE IF enabled.kb /\ env.context = "raise"
      THEN Outcome(FALSE, <<"I encountered an error while processing your request: ",
                            "context error">>, completed_tasks)
    ELSE IF env.stream_raises
      THEN Outcome(FALSE, <<"I encountered an error while processing your request: ",
                            "stream error">>, completed_tasks)
    ELSE Outcome(FALSE, post_process_response(enabled, env.pieces, user_message),
                 completed_tasks)

\* The solve_task result of a call, NotCalled when the call did not reach line 107
NotCalled == [raises |-> FALSE, success |-> FALSE, detail |-> "not called"]

Solved(enabled, user_message, env) ==
    IF is_task_request(user_message) /\ enabled.task THEN env.solver ELSE NotCalled

\* Which of the calls made by get_enhanced_response raised
Fault(enabled, user_message, env) ==
    IF is_task_request(user_message)
      THEN IF enabled.task /\ env.solver.raises THEN "solver" ELSE "none"
    ELSE IF enabled.kb /\ env.context = "raise" THEN "context"
    ELSE IF env.stream_raises THEN "stream"
    ELSE "none"

\* The pieces the loop of get_enhanced_response (lines 73-76) has put into
\* response_parts when it ends or is left by an exception
Streamed(enabled, user_message, env) ==
    IF is_task_request(user_message) THEN <<>>
    ELSE IF enabled.kb /\ env.context = "raise" THEN <<>>
    ELSE env.pieces

\* Lines 65-67: the context string of the turn, "" when the knowledge base is
\* off, the retrieval returned nothing or the turn did not get that far
ContextOf(enabled, user_message, env) ==
    IF is_task_request(user_message) \/ ~enabled.kb \/ env.context = "raise"
      THEN "" ELSE env.context

\* Lines 61-62: a task request is answered by _handle_task_request, any other
\* message by the model
PathTaken(user_message) == IF is_task_request(user_message) THEN "task" ELSE "answer"

\* The queries typed into the knowledge search
SearchQueries == {<<"n", "u", "m", "p", "y">>}

NoCall == [n |-> 0, message |-> <<>>, solved |-> NotCalled, fault |-> "none",
           prev_fault |-> "none", streamed |-> <<>>, path |-> "none", context |-> ""]
NoReturn == [raised |-> FALSE, response |-> <<>>]

\* EnhancedChatSession.__init__, with or without rag_system and task_solver
ChatStart ==
    /\ ch_messages = <<>>
    /\ ch_topic = "None"
    /\ ch_recent_searches = <<>>
    /\ ch_completed_tasks = <<>>
    /\ ch_now = 0
    /\ ch_pc = "idle"
    /\ ch_ret = NoReturn
    /\ ch_call = NoCall

ChatInit == ChatStart /\ ch_enabled \in [kb : BOOLEAN, task : BOOLEAN]

ChatIdle == ChatStart /\ ch_enabled = [kb |-> FALSE, task |-> FALSE]

\* EnhancedChatSession.add_user
AddUser(content) ==
    /\ ch_pc = "idle"
    /\ ch_now < MaxClock
    /\ ch_messages' = add_message(ch_messages, "user", content)
    /\ ch_topic' = analyze_user_message(ch_topic, content)
    /\ ch_pc' = "asked"
    /\ UNCHANGED <<ch_enabled, ch_recent_searches, ch_completed_tasks, ch_now, ch_ret,
                   ch_call>>

\* EnhancedLocalLlm.stream_enhanced_chat on a session whose last message is the
\* user's
StreamEnhancedChat ==
    /\ ch_pc = "asked"
    /\ ch_messages # <<>>
    /\ \E env \in Environments(Last(ch_messages).content) :
       LET user_message == Last(ch_messages).content
           out == get_enhanced_response(ch_enabled, ch_completed_tasks, user_message,
                                        env, ch_now)
       IN  /\ ch_completed_tasks' = out.completed_tasks
           /\ ch_messages' = IF out.raised THEN ch_messages
                             ELSE add_message(ch_messages, "assistant", out.response)
           /\ ch_ret' = [raised |-> out.raised, response |-> out.response]
           /\ ch_call' = [n |-> ch_call.n + 1, message |-> user_message,
                          solved |-> Solved(ch_enabled, user_message, env),
                          fault |-> Fault(ch_enabled, user_message, env),
                          prev_fault |-> ch_call.fault,
                          streamed |-> Streamed(ch_enabled, user_message, env),
                          path |-> PathTaken(user_message),
                          context |-> ContextOf(ch_enabled, user_message, env)]
    /\ ch_now' = ch_now + 1
    /\ ch_pc' = "idle"
    /\ UNCHANGED <<ch_enabled, ch_topic, ch_recent_searches>>

\* stream_enhanced_chat on a session without messages returns ""
StreamEnhancedChatEmpty ==
    /\ ch_messages = <<>>
    /\ ch_ret' = [raised |-> FALSE, response |-> <<"">>]
    /\ ch_ret' # ch_ret
    /\ UNCHANGED <<ch_enabled, ch_messages, ch_topic, ch_recent_searches,
                   ch_completed_tasks, ch_now, ch_pc, ch_call>>

\* EnhancedChatSession.search_knowledge_base when rag_system.search returns
\* `count` results; a search that raises changes nothing
SearchKnowledgeBase(query, count) ==
    /\ ch_enabled.kb
    /\ ch_now < MaxClock
    /\ ch_recent_searches' = Append(ch_recent_searches,
            [query |-> query, results_count |-> count, timestamp |-> ch_now])
    /\ ch_now' = ch_now + 1
    /\ UNCHANGED <<ch_enabled, ch_messages, ch_topic, ch_completed_tasks, ch_pc,
                   ch_ret, ch_call>>

(***************************************************************************)
(* ChatSession.save and DesktopApp.load_conversation                       *)
(***************************************************************************)
\* Bound: messages of the session that is saved
MaxMessages == 2

Newline == "\n"
Quote == "\""
Backslash == "\\"

\* Message contents: plain, with a line break, with a backslash followed by n,
\* with a quote, with blanks at both ends, empty
Contents ==
    {<<"h", "i">>,
     <<"a", Newline, "b">>,
     <<Backslash, "n">>,
     <<Quote>>,
     <<" ", "x", " ">>,
     <<>>}

SessionMessages ==
    UNION {[1..n -> [role : {"user", "assistant"}, content : Contents]] :
             n \in 0..MaxMessages}

\* json.dumps of one character inside a string literal
EscapeChar(c) ==
    IF c = Newline THEN <<Backslash, "n">>
    ELSE IF c = Quote THEN <<Backslash, Quote>>
    ELSE IF c = Backslash THEN <<Backslash, Backslash>>
    ELSE <<c>>

RECURSIVE Escape(_)
Escape(s) == IF s = <<>> THEN <<>> ELSE EscapeChar(Head(s)) \o Escape(Tail(s))

\* json.dumps(m, ensure_ascii=False) of a message dict, key and role names kept as
\* one token each
json_dumps(m) ==
    <<"{", Quote, "role", Quote, ":", Quote, m.role, Quote, ",",
      Quote, "content", Quote, ":", Quote>> \o Escape(m.content) \o <<Quote, "}">>

\* "\n".join(lines)
RECURSIVE JoinLines(_)
JoinLines(lines) ==
    IF Len(lines) = 0 THEN <<>>
    ELSE IF Len(lines) = 1 THEN lines[1]
    ELSE lines[1] \o <<Newline>> \o JoinLines(Tail(lines))

\* ChatSession.transcript_as_jsonl
transcript_as_jsonl(messages) ==
    JoinLines([i \in 1..Len(messages) |-> json_dumps(messages[i])]) \o <<Newline>>

\* f.readlines(): the lines of the text, each with its line end
RECURSIVE ReadLines(_, _, _)
ReadLines(text, line, lines) ==
    IF text = <<>> THEN IF line = <<>> THEN lines ELSE Append(lines, line)
    ELSE IF Head(text) = Newline
      THEN ReadLines(Tail(text), <<>>, Append(lines, Append(line, Newline)))
    ELSE ReadLines(Tail(text), Append(line, Head(text)), lines)

readlines(text) == ReadLines(text, <<>>, <<>>)

IsSpace(c) == c \in {" ", Newline}

\* str.strip()
RECURSIVE strip(_)
strip(s) ==
    IF s = <<>> THEN s
    ELSE IF IsSpace(Head(s)) THEN strip(Tail(s))
    ELSE IF IsSpace(Last(s)) THEN strip(SubSeq(s, 1, Len(s) - 1))
    ELSE s

\* The characters of a JSON string literal body, up to its closing quote;
\* <<"invalid">> marks a literal json.loads rejects
RECURSIVE Unescape(_, _)
Unescape(s, out) ==
    IF s = <<>> THEN [ok |-> TRUE, value |-> out]
    ELSE IF Head(s) = Backslash
      THEN IF Len(s) < 2 THEN [ok |-> FALSE, value |-> <<>>]
           ELSE IF s[2] = "n" THEN Unescape(Tail(Tail(s)), Append(out, Newline))
           ELSE IF s[2] \in {Quote, Backslash}
             THEN Unescape(Tail(Tail(s)), Append(out, s[2]))
           ELSE [ok |-> FALSE, value |-> <<>>]
    ELSE IF Head(s) \in {Quote, Newline} THEN [ok |-> FALSE, value |-> <<>>]
    ELSE Unescape(Tail(s), Append(out, Head(s)))

\* json.loads of one line written by json_dumps
json_loads(line) ==
    IF /\ Len(line) >= 16
       /\ SubSeq(line, 1, 6) = <<"{", Quote, "role", Quote, ":", Quote>>
       /\ SubSeq(line, 8, 14) = <<Quote, ",", Quote, "content", Quote, ":", Quote>>
       /\ SubSeq(line, Len(line) - 1, Len(line)) = <<Quote, "}">>
       /\ Unescape(SubSeq(line, 15, Len(line) - 2), <<>>).ok
      THEN [ok |-> TRUE, role |-> line[7],
            content |-> Unescape(SubSeq(line, 15, Len(line) - 2), <<>>).value]
      ELSE [ok |-> FALSE, role |-> "", content |-> <<>>]

\* The for loop of load_conversation over the lines read: the messages shown in
\* the chat area, until a line fails to parse
RECURSIVE LoadLines(_, _)
LoadLines(lines, shown) ==
    IF lines = <<>> THEN [ok |-> TRUE, shown |-> shown]
    ELSE IF strip(Head(lines)) = <<>> THEN LoadLines(Tail(lines), shown)
    ELSE LET message == json_loads(strip(Head(lines)))
         IN  IF ~message.ok THEN [ok |-> FALSE, shown |-> shown]
             ELSE IF message.role \in {"user", "assistant"}
               THEN LoadLines(Tail(lines),
                              Append(shown, [type |-> message.role,
                                             text |-> message.content]))
             ELSE LoadLines(Tail(lines), shown)

\* The chat area showing the session's messages
Shown(messages) ==
    [i \in 1..Len(messages) |-> [type |-> messages[i].role, text |-> messages[i].content]]

\* A session with its messages on display, nothing saved yet
TranscriptInit ==
    /\ tr_messages \in SessionMessages
    /\ tr_chat_text = Shown(tr_messages)
    /\ tr_file = <<>>
    /\ tr_saved = <<>>
    /\ tr_pc = "open"

TranscriptIdle ==
    /\ tr_messages = <<>>
    /\ tr_chat_text = <<>>
    /\ tr_file = <<>>
    /\ tr_saved = <<>>
    /\ tr_pc = "open"

\* ChatSession.save
SaveConversation ==
    /\ tr_pc = "open"
    /\ tr_file' = transcript_as_jsonl(tr_messages)
    /\ tr_saved' = tr_messages
    /\ tr_pc' = "saved"
    /\ UNCHANGED <<tr_messages, tr_chat_text>>

\* DesktopApp.load_conversation of the saved file
LoadConversation ==
    /\ tr_pc = "saved"
    /\ tr_chat_text' = LoadLines(readlines(tr_file), <<>>).shown
    /\ tr_messages' = <<>>
    /\ tr_pc' = IF LoadLines(readlines(tr_file), <<>>).ok THEN "loaded" ELSE "failed"
    /\ UNCHANGED <<tr_file, tr_saved>>

(***************************************************************************)
(* DesktopApp / TransparentWindow: the worker threads and the message queue *)
(***************************************************************************)
\* Bounds: send_message calls and load_model calls of a run
MaxSends == 2
MaxLoads == 1

\* Worker threads that can be alive at once
Workers == {1, 2}

ModelPaths == {"a.gguf"}

\* What the user types; a reply is the sequence of the pieces streamed
GuiTexts == {<<"hello">>, <<"thanks">>}

\* An item of message_queue
QueueItem(type, content) == [type |-> type, content |-> content]

\* A line of the chat area
ChatLine(type, text) == [type |-> type, text |-> text]

NoResponse == <<"unset">>

\* TransparentWindow.__init__ followed by DesktopApp.setup_rag_system, which
\* leaves rag_system and task_solver set or both None
GuiStart ==
    /\ g_llm = FALSE
    /\ g_session = "None"
    /\ g_messages = <<>>
    /\ g_queue = <<>>
    /\ g_send_btn = "normal"
    /\ g_status = "Ready - No model loaded"
    /\ g_current_response = NoResponse
    /\ g_chat_text = <<>>
    /\ g_recent_models = <<>>
    /\ g_config = [recent_models |-> <<>>, last_model |-> "None"]
    /\ g_loader = "idle"
    /\ g_sends = 0
    /\ g_loads = 0
    /\ w_pc = [w \in Workers |-> "idle"]
    /\ w_message = [w \in Workers |-> <<>>]
    /\ w_plan = [w \in Workers |-> <<>>]
    /\ w_parts = [w \in Workers |-> <<>>]

GuiInit == GuiStart /\ g_rag \in BOOLEAN

GuiIdle == GuiStart /\ g_rag = FALSE

\* list.remove(x) followed by insert(0, x), or insert(0, x) alone
MoveToFront(models, model_path) ==
    <<model_path>> \o SelectSeq(models, LAMBDA x : x # model_path)

FirstTen(models) == SubSeq(models, 1, Min(10, Len(models)))

\* DesktopApp.load_model, TransparentWindow.load_model included: the loader
\* thread is started
LoadModel(model_path) ==
    /\ g_loads < MaxLoads
    /\ g_loader = "idle"
    /\ g_loads' = g_loads + 1
    /\ g_recent_models' = MoveToFront(g_recent_models, model_path)
    /\ g_config' = [recent_models |-> FirstTen(g_recent_models'), last_model |-> model_path]
    /\ g_status' = "Loading model..."
    /\ g_chat_text' = Append(g_chat_text, ChatLine("system", <<"Loading model">>))
    /\ g_loader' = "loading"
    /\ UNCHANGED <<g_rag, g_llm, g_session, g_messages, g_queue, g_send_btn,
                   g_current_response, g_sends, w_pc, w_message, w_plan, w_parts>>

\* TransparentWindow._load_model_background: the model loads and a new
\* ChatSession replaces the session, or the load raises
LoadModelBackground(loaded) ==
    /\ g_loader = "loading"
    /\ g_loader' = "idle"
    /\ IF loaded
         THEN /\ g_llm' = TRUE
              /\ g_session' = "ChatSession"
              /\ g_messages' = <<>>
              /\ g_queue' = g_queue \o
                    <<QueueItem("system", <<"Model loaded successfully">>),
                      QueueItem("status", <<"Ready - Model loaded">>),
                      QueueItem("model", <<"a.gguf">>)>>
         ELSE /\ g_queue' = g_queue \o
                    <<QueueItem("error", <<"Failed to load model">>),
                      QueueItem("status", <<"Ready - No model loaded">>)>>
              /\ UNCHANGED <<g_llm, g_session, g_messages>>
    /\ UNCHANGED <<g_rag, g_send_btn, g_status, g_current_response, g_chat_text,
                   g_recent_models, g_config, g_sends, g_loads, w_pc, w_message,
                   w_plan, w_parts>>

\* TransparentWindow.send_message, from the Send button (only while it is enabled)
\* or from Control-Return in the input field (bound regardless of the button)
SendMessage(message, via) ==
    /\ g_sends < MaxSends
    /\ via = "button" => g_send_btn = "normal"
    /\ g_sends' = g_sends + 1
    /\ IF g_llm /\ g_session # "None"
         THEN /\ \E w \in Workers :
                   /\ w_pc[w] = "idle"
                   /\ \A v \in Workers : w_pc[v] = "idle" => w <= v
                   /\ w_pc' = [w_pc EXCEPT ![w] = "started"]
                   /\ w_message' = [w_message EXCEPT ![w] = message]
              /\ g_chat_text' = Append(g_chat_text, ChatLine("user", message))
              /\ g_status' = "Thinking..."
              /\ g_send_btn' = "disabled"
         ELSE /\ g_chat_text' = g_chat_text \o
                    <<ChatLine("user", message),
                      ChatLine("error", <<"No model loaded. Please load a model first.">>)>>
              /\ g_status' = "Ready - No model loaded"
              /\ g_send_btn' = "normal"
              /\ UNCHANGED <<w_pc, w_message>>
    /\ UNCHANGED <<g_rag, g_llm, g_session, g_messages, g_queue, g_current_response,
                   g_recent_models, g_config, g_loader, g_loads, w_plan, w_parts>>

\* DesktopApp.process_llm_request, line 488: self.session.add_user(message)
WorkerAddUser(w) ==
    /\ w_pc[w] = "started"
    /\ g_messages' = add_message(g_messages, "user", w_message[w])
    /\ w_pc' = [w_pc EXCEPT ![w] = "added"]
    /\ UNCHANGED <<g_rag, g_llm, g_session, g_queue, g_send_btn, g_status,
                   g_current_response, g_chat_text, g_recent_models, g_config,
                   g_loader, g_sends, g_loads, w_message, w_plan, w_parts>>

\* Lines 491-505: with rag_system and task_solver set the worker calls
\* self.session.get_enhanced_response, which the ChatSession created by
\* _load_model_background does not have: the AttributeError is reported as an
\* error item.  Otherwise llm.stream_chat is started; `plan` is what it will yield.
WorkerRespond(w, plan) ==
    /\ w_pc[w] = "added"
    /\ IF g_rag
         THEN /\ g_queue' = Append(g_queue, QueueItem("error", <<"AttributeError">>))
              /\ w_pc' = [w_pc EXCEPT ![w] = "idle"]
              /\ w_message' = [w_message EXCEPT ![w] = <<>>]
              /\ UNCHANGED w_plan
         ELSE /\ w_plan' = [w_plan EXCEPT ![w] = plan]
              /\ w_pc' = [w_pc EXCEPT ![w] = "streaming"]
              /\ UNCHANGED <<g_queue, w_message>>
    /\ UNCHANGED <<g_rag, g_llm, g_session, g_messages, g_send_btn, g_status,
                   g_current_response, g_chat_text, g_recent_models, g_config,
                   g_loader, g_sends, g_loads, w_parts>>

\* Lines 505-508: one piece of the stream
WorkerStreamPiece(w) ==
    /\ w_pc[w] = "streaming"
    /\ Len(w_parts[w]) < Len(w_plan[w])
    /\ LET piece == w_plan[w][Len(w_parts[w]) + 1]
       IN  /\ w_parts' = [w_parts EXCEPT ![w] = Append(@, piece)]
           /\ g_queue' = Append(g_queue, QueueItem("stream", <<piece>>))
    /\ UNCHANGED <<g_rag, g_llm, g_session, g_messages, g_send_btn, g_status,
                   g_current_response, g_chat_text, g_recent_models, g_config,
                   g_loader, g_sends, g_loads, w_pc, w_message, w_plan>>

\* Lines 515-516: the stream raises
WorkerStreamRaises(w) ==
    /\ w_pc[w] = "streaming"
    /\ g_queue' = Append(g_queue, QueueItem("error", <<"stream error">>))
    /\ w_pc' = [w_pc EXCEPT ![w] = "idle"]
    /\ w_message' = [w_message EXCEPT ![w] = <<>>]
    /\ w_plan' = [w_plan EXCEPT ![w] = <<>>]
    /\ w_parts' = [w_parts EXCEPT ![w] = <<>>]
    /\ UNCHANGED <<g_rag, g_llm, g_session, g_messages, g_send_btn, g_status,
                   g_current_response, g_chat_text, g_recent_models, g_config,
                   g_loader, g_sends, g_loads>>

\* Lines 511-512: full_response = "".join(response_parts); add_assistant
WorkerAddAssistant(w) ==
    /\ w_pc[w] = "streaming"
    /\ w_parts[w] = w_plan[w]
    /\ g_messages' = add_message(g_messages, "assistant", w_parts[w])
    /\ w_pc' = [w_pc EXCEPT ![w] = "replied"]
    /\ UNCHANGED <<g_rag, g_llm, g_session, g_queue, g_send_btn, g_status,
                   g_current_response, g_chat_text, g_recent_models, g_config,
                   g_loader, g_sends, g_loads, w_message, w_plan, w_parts>>

\* Line 513: message_queue.put(("complete", full_response)); the thread ends
WorkerPutComplete(w) ==
    /\ w_pc[w] = "replied"
    /\ g_queue' = Append(g_queue, QueueItem("complete", w_parts[w]))
    /\ w_pc' = [w_pc EXCEPT ![w] = "idle"]
    /\ w_message' = [w_message EXCEPT ![w] = <<>>]
    /\ w_plan' = [w_plan EXCEPT ![w] = <<>>]
    /\ w_parts' = [w_parts EXCEPT ![w] = <<>>]
    /\ UNCHANGED <<g_rag, g_llm, g_session, g_messages, g_send_btn, g_status,
                   g_current_response, g_chat_text, g_recent_models, g_config,
                   g_loader, g_sends, g_loads>>

\* What process_messages keeps up to date
Ui(current_response, chat_text, status, send_btn) ==
    [current_response |-> current_response, chat_text |-> chat_text,
     status |-> status, send_btn |-> send_btn]

\* update_streaming_response: the last line of the chat area is rewritten with
\* the response so far and a cursor
StreamingLine(chat_text, response) ==
    [chat_text EXCEPT ![Len(chat_text)] = ChatLine("assistant", Append(response, "|"))]

\* Mutant: the 'error' branch leaves the Send button as it is.
process_item_error_keeps_button(ui, item) ==
    IF item.type = "stream"
      THEN LET fresh == ui.current_response = NoResponse
               response == (IF fresh THEN <<>> ELSE ui.current_response) \o item.content
               lines == IF fresh THEN Append(ui.chat_text, ChatLine("assistant", <<>>))
                        ELSE ui.chat_text
           IN  Ui(response, StreamingLine(lines, response), ui.status, ui.send_btn)
    ELSE IF item.type = "complete"
      THEN Ui(NoResponse, ui.chat_text, "Ready", "normal")
    ELSE IF item.type = "error"
      THEN Ui(ui.current_response, Append(ui.chat_text, ChatLine("error", item.content)),
              "Error occurred", ui.send_btn)
    ELSE ui

\* The body of the while loop of process_messages for one item
process_item(ui, item) ==
    IF item.type = "stream"
      THEN LET fresh == ui.current_response = NoResponse
               response == (IF fresh THEN <<>> ELSE ui.current_response) \o item.content
               lines == IF fresh THEN Append(ui.chat_text, ChatLine("assistant", <<>>))
                        ELSE ui.chat_text
           IN  Ui(response, StreamingLine(lines, response), ui.status, ui.send_btn)
    ELSE IF item.type = "complete"
      THEN Ui(NoResponse, ui.chat_text, "Ready", "normal")
    ELSE IF item.type = "error"
      THEN Ui(ui.current_response, Append(ui.chat_text, ChatLine("error", item.content)),
              "Error occurred", "normal")
    ELSE ui

RECURSIVE process_queue(_, _)
process_queue(ui, items) ==
    IF items = <<>> THEN ui ELSE process_queue(process_item(ui, Head(items)), Tail(items))

\* TransparentWindow.process_messages on the main thread: the queue is emptied
ProcessMessages ==
    /\ g_queue # <<>>
    /\ LET ui == process_queue(Ui(g_current_response, g_chat_text, g_status, g_send_btn),
                               g_queue)
       IN  /\ g_current_response' = ui.current_response
           /\ g_chat_text' = ui.chat_text
           /\ g_status' = ui.status
           /\ g_send_btn' = ui.send_btn
    /\ g_queue' = <<>>
    /\ UNCHANGED <<g_rag, g_llm, g_session, g_messages, g_recent_models, g_config,
                   g_loader, g_sends, g_loads, w_pc, w_message, w_plan, w_parts>>

(***************************************************************************)
(* RAGSystem.search                                                        *)
(***************************************************************************)
\* Bound: the distances of stored chunks from the query are 0..MaxDistance
MaxDistance == 2

\* The ids of the chunks a store can hold
SearchChunks == {"c0", "c1", "c2"}

\* n_results: get_context_for_query asks for 3 (or 5 from solve_task), search
\* defaults to 5; 1 is a caller that wants the nearest chunk only
NResults == {1, 3, 5}

\* collection.query(query_embeddings=[q], n_results=n): the vector index
\* delivers the min(n, count) nearest chunks, nearest first; chunks at the same
\* distance come in either order.
IndexAnswers(chunks, dist, n) ==
    LET k == Min(n, Cardinality(chunks))
    IN  {seq \in [1..k -> chunks] :
            /\ \A i, j \in 1..k : i # j => seq[i] # seq[j]
            /\ \A i \in 1..(k - 1) : dist[seq[i]] <= dist[seq[i + 1]]
            /\ \A c \in chunks :
                  (\A i \in 1..k : seq[i] # c) => \A i \in 1..k : dist[seq[i]] <= dist[c]}

\* Mutant: the formatted list is built back to front.
format_results_reversed(ids, distances) ==
    [i \in 1..Len(ids) |->
        [id |-> ids[Len(ids) + 1 - i], distance |-> distances[Len(ids) + 1 - i]]]

\* search, lines 306-313: one dict per delivered id, in the delivered order
format_results(ids, distances) ==
    [i \in 1..Len(ids) |-> [id |-> ids[i], distance |-> distances[i]]]

\* A store with its chunks' distances from the query that is going to be asked
SearchInit ==
    /\ sr_store \in SUBSET SearchChunks
    /\ sr_dist \in [SearchChunks -> 0..MaxDistance]
    /\ sr_empty_raises \in BOOLEAN
    /\ sr_delivered = <<>>
    /\ sr_results = <<>>
    /\ sr_outcome = "none"

SearchIdle ==
    /\ sr_store = {}
    /\ sr_dist = [c \in SearchChunks |-> 0]
    /\ sr_empty_raises = FALSE
    /\ sr_delivered = <<>>
    /\ sr_results = <<>>
    /\ sr_outcome = "none"

\* RAGSystem.search(query, n_results).  encode may raise; collection.query on a
\* collection without chunks raises with some chromadb versions and delivers
\* nothing with others; the except branch returns [].
Search(n_results, encode_ok) ==
    /\ IF ~encode_ok \/ (sr_store = {} /\ sr_empty_raises)
         THEN /\ sr_delivered' = <<>>
              /\ sr_results' = <<>>
              /\ sr_outcome' = "raised"
         ELSE \E ids \in IndexAnswers(sr_store, sr_dist, n_results) :
                 /\ sr_delivered' = ids
                 /\ sr_results' = format_results(ids, [i \in 1..Len(ids) |-> sr_dist[ids[i]]])
                 /\ sr_outcome' = "returned"
    /\ UNCHANGED <<sr_store, sr_dist, sr_empty_raises>>

(***************************************************************************)
(* DocumentProcessor.process_file and the extractors                       *)
(***************************************************************************)
\* file_path.suffix.lower() of the files handed to process_file
FileSuffixes ==
    {".pdf", ".docx", ".html", ".htm", ".md", ".markdown", ".txt", ".py", ".js",
     ".css", ".json", ".yaml", ".yml", ".exe", ""}

\* What the format-specific reader yields for a file: nothing, white space only,
\* or words
FileTexts == {<<>>, <<" ", Newline>>, <<"h", "i">>, <<" ", "h", "i", Newline>>}

\* A file as process_file finds it; `unreadable` is the cause that makes the
\* format-specific extraction raise ("none" when it does not)
Files ==
    [exists : BOOLEAN, suffix : FileSuffixes, text : FileTexts,
     unreadable : {"none", "PdfReadError", "UnicodeDecodeError"}]

\* extract_text_from_pdf / _docx / _html / _markdown / _txt: the text, or ""
\* from the except branch, which logs the cause
extract_text(file) == IF file.unreadable # "none" THEN <<>> ELSE file.text

\* The dict process_file returns; error "" stands for a file_info without the
\* "error" key
FileInfo(error, extension, text) == [error |-> error, extension |-> extension, text |-> text]

\* DocumentProcessor.process_file
process_file_dict(file) ==
    IF ~file.exists THEN FileInfo("File not found", "", <<>>)
    ELSE IF file.suffix \notin SupportedSuffixes
      THEN FileInfo("Unsupported file type", "", <<>>)
    ELSE IF strip(extract_text(file)) = <<>>
      THEN FileInfo("No text content found", "", <<>>)
    ELSE FileInfo("", file.suffix, extract_text(file))

ProcessorInit ==
    /\ pf_file \in Files
    /\ pf_result = FileInfo("none", "", <<>>)
    /\ pf_pc = "input"

ProcessorIdle ==
    /\ pf_file = [exists |-> FALSE, suffix |-> "", text |-> <<>>, unreadable |-> "none"]
    /\ pf_result = FileInfo("none", "", <<>>)
    /\ pf_pc = "input"

ProcessFile ==
    /\ pf_pc = "input"
    /\ pf_result' = process_file_dict(pf_file)
    /\ pf_pc' = "done"
    /\ UNCHANGED pf_file

(***************************************************************************)
(* TextChunker.__init__ with any configuration                             *)
(***************************************************************************)
\* No TextChunker yet; the text that is going to be chunked is fixed
ChunkerConfigInit ==
    /\ ck_words \in 0..MaxWords
    /\ ck_size = 1
    /\ ck_overlap = 0
    /\ ck_chunks = <<>>
    /\ ck_pc = "new"

\* TextChunker(chunk_size, overlap): the two arguments are stored
TextChunkerNew(chunk_size, overlap) ==
    /\ ck_pc = "new"
    /\ ck_size' = chunk_size
    /\ ck_overlap' = overlap
    /\ ck_pc' = "input"
    /\ UNCHANGED <<ck_words, ck_chunks>>

\* chunk_text under any configuration: range(0, len(words), step) raises
\* ValueError for step 0 and is empty for a negative step
ChunkTextAnyStep ==
    /\ ck_pc = "input"
    /\ LET step == ck_size - ck_overlap
       IN  IF step = 0
             THEN ck_pc' = "raised" /\ ck_chunks' = <<>>
           ELSE IF step < 0
             THEN ck_pc' = "done" /\ ck_chunks' = <<>>
           ELSE ck_pc' = "done" /\ ck_chunks' = chunk_text(ck_words, ck_size, ck_overlap)
    /\ UNCHANGED <<ck_words, ck_size, ck_overlap>>

(***************************************************************************)
(* TaskExecutor                                                            *)
(***************************************************************************)
\* Bound: lines add_to_path appends to the shell profile
MaxProfileLines == 2

\* Directory names as add_to_path gets them: "/a", "/ab", "/b/" exist, "/no"
\* does not
PathArgs ==
    {<<"/", "a">>, <<"/", "a", "b">>, <<"/", "b", "/">>, <<"/", "n", "o">>}

\* str(Path(p).resolve()) of an absolute path without links: a trailing
\* separator is dropped
resolve(p) == IF Len(p) > 1 /\ Last(p) = "/" THEN SubSeq(p, 1, Len(p) - 1) ELSE p

\* os.path.exists
path_exists(p) == p \in {<<"/", "a">>, <<"/", "a", "b">>, <<"/", "b">>}

\* What a subprocess does: ends with return code 0 or 1, never ends, or cannot
\* be started (subprocess.run raises OSError)
SubprocessOutcomes == {"exit0", "exit1", "hangs", "oserror"}

\* subprocess.run(..., timeout=...) / subprocess.run(...) without timeout
subprocess_run(outcome, has_timeout) ==
    IF outcome = "hangs"
      THEN IF has_timeout THEN "TimeoutExpired" ELSE "blocked"
    ELSE outcome

\* A result dict; the call never returns when blocked
ExecResult(success, already_exists, error) ==
    [blocked |-> FALSE, success |-> success, already_exists |-> already_exists,
     error |-> error]
Blocked == [blocked |-> TRUE, success |-> FALSE, already_exists |-> FALSE, error |-> ""]
NoExecResult == ExecResult(FALSE, FALSE, "none")

\* What an operation leaves behind
Effect(result, path, machine_path, profile) ==
    [result |-> result, path |-> path, machine_path |-> machine_path, profile |-> profile]

\* TaskExecutor._add_to_path_windows
add_to_path_windows(path_to_add, permanent, outcome) ==
    IF permanent
      THEN LET run == subprocess_run(outcome, FALSE)
           IN  IF run = "blocked" THEN Effect(Blocked, ex_path, ex_machine_path, ex_profile)
               ELSE IF run = "oserror"
                 THEN Effect(ExecResult(FALSE, FALSE, "Windows PATH error"),
                             ex_path, ex_machine_path, ex_profile)
               ELSE IF run = "exit0"
                 THEN Effect(ExecResult(TRUE, FALSE, ""), ex_path,
                             ex_path \o <<";">> \o path_to_add, ex_profile)
               ELSE Effect(ExecResult(FALSE, FALSE, "Failed to add to system PATH"),
                           ex_path, ex_machine_path, ex_profile)
      ELSE Effect(ExecResult(TRUE, FALSE, ""), ex_path \o <<";">> \o path_to_add,
                  ex_machine_path, ex_profile)

\* TaskExecutor._add_to_path_unix; opening the profile for append may raise
add_to_path_unix(path_to_add, permanent, outcome) ==
    IF permanent
      THEN IF outcome = "oserror"
             THEN Effect(ExecResult(FALSE, FALSE, "Unix PATH error"),
                         ex_path, ex_machine_path, ex_profile)
             ELSE Effect(ExecResult(TRUE, FALSE, ""), ex_path, ex_machine_path,
                         Append(ex_profile, path_to_add))
      ELSE Effect(ExecResult(TRUE, FALSE, ""), ex_path \o <<":">> \o path_to_add,
                  ex_machine_path, ex_profile)

\* TaskExecutor.add_to_path
add_to_path(path_arg, permanent, outcome) ==
    LET path_to_add == resolve(path_arg)
    IN  IF ~path_exists(path_to_add)
          THEN Effect(ExecResult(FALSE, FALSE, "Path does not exist"),
                      ex_path, ex_machine_path, ex_profile)
        ELSE IF Contains(path_to_add, ex_path)
          THEN Effect(ExecResult(TRUE, TRUE, ""), ex_path, ex_machine_path, ex_profile)
        ELSE IF ex_is_windows
          THEN add_to_path_windows(path_to_add, permanent, outcome)
        ELSE add_to_path_unix(path_to_add, permanent, outcome)

\* install_python_package (timeout=300), create_virtual_environment (timeout=60)
\* and run_command (timeout=30): the dict built from the subprocess outcome
run_with_timeout(outcome) ==
    LET run == subprocess_run(outcome, TRUE)
    IN  IF run = "blocked" THEN Blocked
        ELSE IF run = "TimeoutExpired" THEN ExecResult(FALSE, FALSE, "timed out")
        ELSE IF run = "oserror" THEN ExecResult(FALSE, FALSE, "OSError")
        ELSE IF run = "exit0" THEN ExecResult(TRUE, FALSE, "")
        ELSE ExecResult(FALSE, FALSE, "failed")

\* TaskExecutor.__init__ on either platform; PATH holds the one entry "/ab"
ExecutorStart ==
    /\ ex_path = <<"/", "a", "b">>
    /\ ex_machine_path = <<"/", "a", "b">>
    /\ ex_profile = <<>>
    /\ ex_op = [name |-> "none", arg |-> <<>>]
    /\ ex_result = NoExecResult

ExecutorInit == ExecutorStart /\ ex_is_windows \in BOOLEAN

ExecutorIdle == ExecutorStart /\ ex_is_windows = FALSE

AddToPath(path_arg, permanent, outcome) ==
    /\ ~ex_result.blocked
    /\ Len(ex_profile) < MaxProfileLines
    /\ LET effect == add_to_path(path_arg, permanent, outcome)
       IN  /\ ex_result' = effect.result
           /\ ex_path' = effect.path
           /\ ex_machine_path' = effect.machine_path
           /\ ex_profile' = effect.profile
    /\ ex_op' = [name |-> "add_to_path", arg |-> path_arg]
    /\ UNCHANGED ex_is_windows

InstallPythonPackage(outcome) ==
    /\ ~ex_result.blocked
    /\ ex_result' = run_with_timeout(outcome)
    /\ ex_op' = [name |-> "install_python_package", arg |-> <<>>]
    /\ UNCHANGED <<ex_is_windows, ex_path, ex_machine_path, ex_profile>>

CreateVirtualEnvironment(outcome) ==
    /\ ~ex_result.blocked
    /\ ex_result' = run_with_timeout(outcome)
    /\ ex_op' = [name |-> "create_virtual_environment", arg |-> <<>>]
    /\ UNCHANGED <<ex_is_windows, ex_path, ex_machine_path, ex_profile>>

RunCommand(outcome) ==
    /\ ~ex_result.blocked
    /\ ex_result' = run_with_timeout(outcome)
    /\ ex_op' = [name |-> "run_command", arg |-> <<>>]
    /\ UNCHANGED <<ex_is_windows, ex_path, ex_machine_path, ex_profile>>

(***************************************************************************)
(* DesktopApp: the recent-model list and the saved configuration           *)
(***************************************************************************)

NumModelFiles == 11
MaxModelLoads == 3

ModelFile(i) == [name |-> i]

\* None: no model path
NoModel == ModelFile(0)

ModelFiles == {ModelFile(i) : i \in 1..NumModelFiles}

\* list.remove(x): the first occurrence of x is removed
list_remove(models, x) ==
    LET i == CHOOSE k \in 1..Len(models) :
                 models[k] = x /\ \A j \in 1..(k - 1) : models[j] # x
    IN SubSeq(models, 1, i - 1) \o SubSeq(models, i + 1, Len(models))

\* the list that load_model leaves in self.recent_models
recent_after_load(models, model_path) ==
    IF \A k \in 1..Len(models) : models[k] # model_path
    THEN <<model_path>> \o models
    ELSE <<model_path>> \o list_remove(models, model_path)

save_config_untruncated(recent_models, current_model_path) ==
    [recent_models |-> recent_models, last_model |-> current_model_path]

\* the JSON object that save_config writes
save_config(recent_models, current_model_path) ==
    [recent_models |-> FirstTen(recent_models), last_model |-> current_model_path]

RECURSIVE ConfigAfterLoading(_)
\* the configuration file left by an earlier run that loaded the first k
\* model files one after the other
ConfigAfterLoading(k) ==
    IF k = 0 THEN save_config(<<>>, NoModel)
    ELSE save_config(recent_after_load(ConfigAfterLoading(k - 1).recent_models, ModelFile(k)),
                     ModelFile(k))

\* the sizes of the list in the configuration file found at the first start
SavedSizes == {0, 9, 10}

RecentStart ==
    /\ rm_running = FALSE
    /\ rm_recent_models = <<>>
    /\ rm_current_model_path = NoModel
    /\ rm_op = "none"
    /\ rm_loads = 0

RecentInit ==
    /\ RecentStart
    /\ \E k \in SavedSizes :
           /\ rm_config = ConfigAfterLoading(k)
           /\ rm_history = [i \in 1..k |-> ModelFile(i)]

RecentIdle ==
    /\ RecentStart
    /\ rm_config = ConfigAfterLoading(0)
    /\ rm_history = <<>>

\* DesktopApp.__init__: setup_model_management and load_config read the file;
\* load_config loads the last model again when its file still exists
StartApp(last_exists) ==
    /\ ~rm_running
    /\ rm_running' = TRUE
    /\ IF rm_config.last_model # NoModel /\ last_exists
       THEN /\ rm_loads < MaxModelLoads
            /\ rm_loads' = rm_loads + 1
            /\ rm_recent_models' = recent_after_load(rm_config.recent_models,
                                                     rm_config.last_model)
            /\ rm_current_model_path' = rm_config.last_model
            /\ rm_config' = save_config(rm_recent_models', rm_current_model_path')
            /\ rm_history' = Append(rm_history, rm_config.last_model)
            /\ rm_op' = "load_model"
       ELSE /\ rm_recent_models' = rm_config.recent_models
            /\ rm_current_model_path' = NoModel
            /\ rm_op' = "start"
            /\ UNCHANGED <<rm_config, rm_history, rm_loads>>

\* DesktopApp.load_model, save_config included
DesktopLoadModel(model_path) ==
    /\ rm_running
    /\ rm_loads < MaxModelLoads
    /\ rm_loads' = rm_loads + 1
    /\ rm_recent_models' = recent_after_load(rm_recent_models, model_path)
    /\ rm_current_model_path' = model_path
    /\ rm_config' = save_config(rm_recent_models', rm_current_model_path')
    /\ rm_history' = Append(rm_history, model_path)
    /\ rm_op' = "load_model"
    /\ UNCHANGED rm_running

\* DesktopApp.close_app
CloseApp ==
    /\ rm_running
    /\ rm_running' = FALSE
    /\ rm_config' = save_config(rm_recent_models, rm_current_model_path)
    /\ rm_op' = "close"
    /\ UNCHANGED <<rm_recent_models, rm_current_model_path, rm_history, rm_loads>>

(***************************************************************************)
(* DesktopApp.process_llm_request: publishing a reply to the message queue *)
(***************************************************************************)
\* Bounds: characters of a reply, pieces of a stream
MaxReplyLen == 3
MaxPlanLen == 2

ReplyAlphabet == {"a", " ", Newline}

\* the strings of up to n characters
StringsUpTo(n) == UNION {[1..k -> ReplyAlphabet] : k \in 0..n}

\* what get_enhanced_response can return
FullResponses == StringsUpTo(MaxReplyLen) \ {<<>>}

\* what llm.stream_chat can yield
StreamPlans == UNION {[1..k -> StringsUpTo(2) \ {<<>>}] : k \in 0..MaxPlanLen}

RECURSIVE split(_, _, _)
\* str.split(): the words between runs of whitespace
split(s, word, words) ==
    IF s = <<>> THEN IF word = <<>> THEN words ELSE Append(words, word)
    ELSE IF IsSpace(Head(s))
      THEN split(Tail(s), <<>>, IF word = <<>> THEN words ELSE Append(words, word))
    ELSE split(Tail(s), Append(word, Head(s)), words)

\* lines 496-499: one piece per word, a blank after each word but the last
enhanced_pieces(full_response) ==
    LET words == split(full_response, <<>>, <<>>)
    IN [i \in 1..Len(words) |-> IF i < Len(words) THEN Append(words[i], " ") ELSE words[i]]

RECURSIVE join(_)
\* "".join(response_parts)
join(parts) == IF parts = <<>> THEN <<>> ELSE Head(parts) \o join(Tail(parts))

\* no request has been made
StreamInit ==
    /\ st_pc = "idle"
    /\ st_path = "none"
    /\ st_pieces = <<>>
    /\ st_put = 0
    /\ st_full_response = <<>>
    /\ st_queue = <<>>
    /\ st_current_response = <<>>
    /\ st_completed = FALSE
    /\ st_complete = <<>>

StreamIdle == StreamInit

\* lines 491-495: the reply of get_enhanced_response is cut into pieces
EnhancedResponse(full_response) ==
    /\ st_pc = "idle"
    /\ st_pc' = "streaming"
    /\ st_path' = "enhanced"
    /\ st_full_response' = full_response
    /\ st_pieces' = enhanced_pieces(full_response)
    /\ UNCHANGED <<st_put, st_queue, st_current_response, st_completed, st_complete>>

\* lines 503-511: the pieces are those of llm.stream_chat, the reply their join
StandardResponse(plan) ==
    /\ st_pc = "idle"
    /\ st_pc' = "streaming"
    /\ st_path' = "plain"
    /\ st_full_response' = join(plan)
    /\ st_pieces' = plan
    /\ UNCHANGED <<st_put, st_queue, st_current_response, st_completed, st_complete>>

\* message_queue.put(("stream", piece))
PutStream ==
    /\ st_pc = "streaming"
    /\ st_put < Len(st_pieces)
    /\ st_put' = st_put + 1
    /\ st_queue' = Append(st_queue, QueueItem("stream", st_pieces[st_put + 1]))
    /\ UNCHANGED <<st_pc, st_path, st_pieces, st_full_response, st_current_response,
                   st_completed, st_complete>>

\* message_queue.put(("complete", full_response))
PutComplete ==
    /\ st_pc = "streaming"
    /\ st_put = Len(st_pieces)
    /\ st_pc' = "done"
    /\ st_queue' = Append(st_queue, QueueItem("complete", st_full_response))
    /\ UNCHANGED <<st_path, st_pieces, st_put, st_full_response, st_current_response,
                   st_completed, st_complete>>

\* process_messages takes one item: a piece is added to current_response, the
\* complete item ends the turn
GetMessage ==
    /\ st_queue # <<>>
    /\ st_queue' = Tail(st_queue)
    /\ IF Head(st_queue).type = "stream"
         THEN /\ st_current_response' = st_current_response \o Head(st_queue).content
              /\ UNCHANGED <<st_completed, st_complete>>
         ELSE /\ st_completed' = TRUE
              /\ st_complete' = Head(st_queue).content
              /\ UNCHANGED st_current_response
    /\ UNCHANGED <<st_pc, st_path, st_pieces, st_put, st_full_response>>

(***************************************************************************)
(* TaskSolver.solve_task and its resolvers                                 *)
(***************************************************************************)
\* Bound: words per task description
MaxSolverWords == 2

\* The words task descriptions are made of; "/a" may exist as a path, "C:x"
\* has a colon and does not exist
SolverWords ==
    {<<"a", "d", "d">>, <<"P", "A", "T", "H">>, <<"C", ":", "x">>, <<"/", "a">>,
     <<"i", "n", "s", "t", "a", "l", "l">>, <<"n", "u", "m", "p", "y">>,
     <<"R", "u", "n">>, <<"d", "i", "r">>, <<"p", "y", "t", "h", "o", "n">>}

TaskDescriptions ==
    {JoinWords(ws) : ws \in UNION {[1..n -> SolverWords] : n \in 1..MaxSolverWords}}

\* What the machine answers during one solve_task call: whether "/a" exists,
\* whether the first and the second Task Executor operation succeed, whether
\* a Python installation is found and whether it has a Scripts directory
SolverEnvs == [a_exists : BOOLEAN, ok : BOOLEAN, ok2 : BOOLEAN, python : BOOLEAN,
               scripts : BOOLEAN]

\* A result dict: success, task_solved, error and suggestions
SolveResult(success, task_solved, error, suggestions) ==
    [success |-> success, task_solved |-> task_solved, error |-> error,
     suggestions |-> suggestions]

\* A Task Executor operation made for the request and the success it returned
ExecutorCall(op, arg, success) == [op |-> op, arg |-> arg, success |-> success]

Solved_(result, calls) == [result |-> result, calls |-> calls]

\* os.path.exists(candidate)
candidate_exists(candidate, env) == candidate = <<"/", "a">> /\ env.a_exists

RECURSIVE path_candidates(_, _, _)
\* lines 357-365: the one or two words after each "add", "to" or "path" that
\* exist as a path or contain a colon
path_candidates(words, env, i) ==
    IF i > Len(words) THEN <<>>
    ELSE (IF str_lower(words[i]) \in {<<"a", "d", "d">>, <<"t", "o">>, <<"p", "a", "t", "h">>}
             /\ i < Len(words)
            THEN SelectSeq(SubSeq(words, i + 1, Min(i + 2, Len(words))),
                           LAMBDA c : candidate_exists(c, env) \/ Contains(<<":">>, c))
            ELSE <<>>)
         \o path_candidates(words, env, i + 1)

RECURSIVE package_candidates(_, _)
\* lines 424-429: the word after each "install" or "pip"
package_candidates(words, i) ==
    IF i > Len(words) THEN <<>>
    ELSE (IF str_lower(words[i]) \in {<<"i", "n", "s", "t", "a", "l", "l">>, <<"p", "i", "p">>}
             /\ i < Len(words)
            THEN <<words[i + 1]>> ELSE <<>>)
         \o package_candidates(words, i + 1)

RECURSIVE command_candidates(_, _)
\* lines 450-458: the words after the first "run", "execute" or "command"
command_candidates(words, i) ==
    IF i > Len(words) THEN <<>>
    ELSE IF str_lower(words[i]) \in {<<"r", "u", "n">>, <<"e", "x", "e", "c", "u", "t", "e">>,
                                     <<"c", "o", "m", "m", "a", "n", "d">>}
            /\ i < Len(words)
      THEN <<JoinWords(SubSeq(words, i + 1, Len(words)))>>
    ELSE command_candidates(words, i + 1)

\* Mutant: without a candidate the resolver acts on a guess.
resolve_with_guess(candidates, op, success, error, suggestions) ==
    LET chosen == IF candidates = <<>> THEN <<"guess">> ELSE candidates[1]
    IN  Solved_(SolveResult(success, success, IF success THEN "" ELSE "executor error", <<>>),
                <<ExecutorCall(op, chosen, success)>>)

\* lines 367-382, 431-445, 460-474: no candidate gives the error dict; otherwise
\* the executor operation is called with the first candidate and its result
\* is returned, with task_solved when it succeeded
resolve_with(candidates, op, success, error, suggestions) ==
    IF candidates = <<>>
      THEN Solved_(SolveResult(FALSE, FALSE, error, suggestions), <<>>)
      ELSE Solved_(SolveResult(success, success, IF success THEN "" ELSE "executor error", <<>>),
                   <<ExecutorCall(op, candidates[1], success)>>)

\* TaskSolver._solve_path_addition_task; add_to_path fails on a path that does
\* not exist
solve_path_addition_task(words, env) ==
    LET candidates == path_candidates(words, env, 1)
    IN  resolve_with(candidates, "add_to_path",
                     env.ok /\ candidates # <<>> /\ candidate_exists(candidates[1], env),
                     "Could not identify path to add",
                     <<"Please specify the exact path you want to add to PATH">>)

\* TaskSolver._solve_package_installation_task
solve_package_installation_task(words, env) ==
    resolve_with(package_candidates(words, 1), "install_python_package", env.ok,
                 "Could not identify package to install",
                 <<"Please specify the package name", "Example: install numpy">>)

\* TaskSolver._solve_system_command_task
solve_system_command_task(words, env) ==
    resolve_with(command_candidates(words, 1), "run_command", env.ok,
                 "Could not identify command to run",
                 <<"Please specify the command to execute", "Example: run dir">>)

\* TaskSolver._solve_python_setup_task
solve_python_setup_task(env) ==
    IF ~env.python
      THEN Solved_(SolveResult(FALSE, FALSE, "No Python installations found",
                               <<"Please install Python first", "Download from python.org">>),
                   <<>>)
      ELSE Solved_(SolveResult(TRUE, TRUE, "", <<>>),
                   <<ExecutorCall("add_to_path", <<"python_dir">>, env.ok)>>
                   \o (IF env.scripts
                         THEN <<ExecutorCall("add_to_path", <<"scripts_dir">>, env.ok2)>>
                         ELSE <<>>))

\* TaskSolver.solve_task
solve_task(task_description, env) ==
    LET task_type == analyze_task(task_description).task_type
        words == split(task_description, <<>>, <<>>)
    IN  IF task_type = "path_addition" THEN solve_path_addition_task(words, env)
        ELSE IF task_type = "python_setup" THEN solve_python_setup_task(env)
        ELSE IF task_type = "package_installation"
          THEN solve_package_installation_task(words, env)
        ELSE IF task_type = "system_command" THEN solve_system_command_task(words, env)
        ELSE Solved_(SolveResult(FALSE, FALSE, "Task type not recognized",
                                 <<"Try rephrasing your request more specifically">>), <<>>)

\* TaskSolver.__init__: nothing has been asked
SolverInit ==
    /\ sv_pc = "idle"
    /\ sv_task = <<>>
    /\ sv_type = "none"
    /\ sv_candidates = 0
    /\ sv_result = SolveResult(FALSE, FALSE, "", <<>>)
    /\ sv_calls = <<>>

SolverIdle == SolverInit

\* number of parameter candidates the resolver of the task type extracts
CandidateCount(task_type, words, env) ==
    IF task_type = "path_addition" THEN Len(path_candidates(words, env, 1))
    ELSE IF task_type = "package_installation" THEN Len(package_candidates(words, 1))
    ELSE IF task_type = "system_command" THEN Len(command_candidates(words, 1))
    ELSE 0

\* one solve_task call
SolveTask(task_description, env) ==
    /\ sv_pc = "idle"
    /\ sv_pc' = "done"
    /\ sv_task' = task_description
    /\ sv_type' = analyze_task(task_description).task_type
    /\ sv_candidates' = CandidateCount(sv_type', split(task_description, <<>>, <<>>), env)
    /\ LET out == solve_task(task_description, env)
       IN  /\ sv_result' = out.result
           /\ sv_calls' = out.calls

\* the next request
NextTask ==
    /\ sv_pc = "done"
    /\ sv_pc' = "idle"
    /\ sv_task' = <<>>
    /\ sv_type' = "none"
    /\ sv_candidates' = 0
    /\ sv_result' = SolveResult(FALSE, FALSE, "", <<>>)
    /\ sv_calls' = <<>>

(***************************************************************************)
(* KnowledgeBaseManager: the documents list and Delete Selected            *)
(***************************************************************************)
Docs == Comp("docs", "")
Home == Comp("home", "")

\* The file paths chosen in the file dialog or typed into the path field:
\* "a.txt", "b.txt", "docs/a.txt", "docs/b.txt", "home/a.txt"
ManagerPaths ==
    {<<Comp("a", ".txt")>>, <<Comp("b", ".txt")>>,
     <<Docs, Comp("a", ".txt")>>, <<Docs, Comp("b", ".txt")>>,
     <<Home, Comp("a", ".txt")>>}

\* number of chunks of a file: files in docs/ are long
ChunkCountOf(p) == IF p[1] = Docs THEN 2 ELSE 1

\* the chunk metadata add_document stores for a file (process_file lines
\* 104-108: path is str(file_path), name is file_path.name)
StoredChunks(p) ==
    {[path |-> PathStr(p), name |-> Last(PathStr(p)), chunk_index |-> i] :
        i \in 0..(ChunkCountOf(p) - 1)}

\* get_knowledge_base_stats()["sources"]: the names found in the metadata
sources(chunks) == {c.name : c \in chunks}

\* RAGSystem.delete_document(file_path) on a collection holding `chunks`
delete_document(chunks, file_path) ==
    LET gone == {c \in chunks : c.path = file_path}
    IN  [store |-> chunks \ gone, success |-> gone # {},
         chunks_deleted |-> Cardinality(gone)]

\* the window has been opened on an empty knowledge base
ManagerInit ==
    /\ km_store = {}
    /\ km_listbox = {}
    /\ km_op = [name |-> "none", arg |-> <<>>]
    /\ km_result = [success |-> FALSE, chunks_deleted |-> 0]

ManagerIdle == ManagerInit

\* KnowledgeBaseManager.add_document and _handle_add_document_result: the
\* file's chunks are stored (ids already stored are not stored twice) and the
\* list is refreshed
ManagerAddDocument(p) ==
    /\ km_store' = km_store \cup StoredChunks(p)
    /\ km_listbox' = sources(km_store')
    /\ km_op' = [name |-> "add_document", arg |-> p]
    /\ UNCHANGED km_result

\* KnowledgeBaseManager.delete_selected_document on the entry selected_doc,
\* confirmed
DeleteSelectedDocument(selected_doc) ==
    /\ selected_doc \in km_listbox
    /\ LET result == delete_document(km_store, <<selected_doc>>)
       IN  /\ km_store' = result.store
           /\ km_result' = [success |-> result.success,
                            chunks_deleted |-> result.chunks_deleted]
           /\ km_listbox' = IF result.success THEN sources(km_store') ELSE km_listbox
    /\ km_op' = [name |-> "delete_selected_document", arg |-> <<selected_doc>>]

(***************************************************************************)
(* Specifications                                                          *)
(***************************************************************************)
ChunkerNext == ChunkText /\ UNCHANGED <<ragVars, classifierVars, chatVars, transcriptVars, guiVars, searchVars, processorVars, executorVars, recentVars, streamVars, solverVars, managerVars>>

InitChunker == ChunkerInit /\ RagIdle /\ ClassifierIdle /\ ChatIdle /\ TranscriptIdle /\ GuiIdle /\ SearchIdle /\ ProcessorIdle /\ ExecutorIdle /\ RecentIdle /\ StreamIdle /\ SolverIdle /\ ManagerIdle
SpecChunker == InitChunker /\ [][ChunkerNext]_vars

RagOther == UNCHANGED <<chunkerVars, classifierVars, chatVars, transcriptVars, guiVars, searchVars, processorVars, executorVars, recentVars, streamVars, solverVars, managerVars>>

RagNext ==
    \/ \E n \in FileWords : WriteFile(n) /\ RagOther
    \/ \E t \in Threads, p \in RawPaths : AddDocumentCheck(t, p) /\ RagOther
    \/ \E t \in Threads, ok \in BOOLEAN : AddDocumentStore(t, ok) /\ RagOther
    \/ \E t \in Threads : AddDocumentReturn(t) /\ RagOther
    \/ \E p \in RawPaths : DeleteDocument(p) /\ RagOther
    \/ ClearKnowledgeBase /\ RagOther
    \/ \E text \in Texts : AddText(text) /\ RagOther

InitRag == RagInit /\ ChunkerIdle /\ ClassifierIdle /\ ChatIdle /\ TranscriptIdle /\ GuiIdle /\ SearchIdle /\ ProcessorIdle /\ ExecutorIdle /\ RecentIdle /\ StreamIdle /\ SolverIdle /\ ManagerIdle
SpecRag == InitRag /\ [][RagNext]_vars

ClassifierNext == AnalyzeTask /\ UNCHANGED <<chunkerVars, ragVars, chatVars, transcriptVars, guiVars, searchVars, processorVars, executorVars, recentVars, streamVars, solverVars, managerVars>>

InitClassifier == ClassifierInit /\ ChunkerIdle /\ RagIdle /\ ChatIdle /\ TranscriptIdle /\ GuiIdle /\ SearchIdle /\ ProcessorIdle /\ ExecutorIdle /\ RecentIdle /\ StreamIdle /\ SolverIdle /\ ManagerIdle
SpecClassifier == InitClassifier /\ [][ClassifierNext]_vars

ChatOther == UNCHANGED <<chunkerVars, ragVars, classifierVars, transcriptVars, guiVars, searchVars, processorVars, executorVars, recentVars, streamVars, solverVars, managerVars>>

ChatNext ==
    \/ \E content \in UserTexts : AddUser(content) /\ ChatOther
    \/ StreamEnhancedChat /\ ChatOther
    \/ StreamEnhancedChatEmpty /\ ChatOther
    \/ \E query \in SearchQueries, count \in 0..1 :
           SearchKnowledgeBase(query, count) /\ ChatOther

InitChat == ChatInit /\ ChunkerIdle /\ RagIdle /\ ClassifierIdle /\ TranscriptIdle /\ GuiIdle /\ SearchIdle /\ ProcessorIdle /\ ExecutorIdle /\ RecentIdle /\ StreamIdle /\ SolverIdle /\ ManagerIdle
SpecChat == InitChat /\ [][ChatNext]_vars

TranscriptOther == UNCHANGED <<chunkerVars, ragVars, classifierVars, chatVars, guiVars, searchVars, processorVars, executorVars, recentVars, streamVars, solverVars, managerVars>>

TranscriptNext ==
    \/ SaveConversation /\ TranscriptOther
    \/ LoadConversation /\ TranscriptOther

InitTranscript == TranscriptInit /\ ChunkerIdle /\ RagIdle /\ ClassifierIdle /\ ChatIdle /\ GuiIdle /\ SearchIdle /\ ProcessorIdle /\ ExecutorIdle /\ RecentIdle /\ StreamIdle /\ SolverIdle /\ ManagerIdle
SpecTranscript == InitTranscript /\ [][TranscriptNext]_vars

GuiOther == UNCHANGED <<chunkerVars, ragVars, classifierVars, chatVars, transcriptVars, searchVars, processorVars, executorVars, recentVars, streamVars, solverVars, managerVars>>

GuiNext ==
    \/ \E model_path \in ModelPaths : LoadModel(model_path) /\ GuiOther
    \/ \E loaded \in BOOLEAN : LoadModelBackground(loaded) /\ GuiOther
    \/ \E message \in GuiTexts, via \in {"button", "key"} :
           SendMessage(message, via) /\ GuiOther
    \/ \E w \in Workers : WorkerAddUser(w) /\ GuiOther
    \/ \E w \in Workers, plan \in PieceSeqs : WorkerRespond(w, plan) /\ GuiOther
    \/ \E w \in Workers : WorkerStreamPiece(w) /\ GuiOther
    \/ \E w \in Workers : WorkerStreamRaises(w) /\ GuiOther
    \/ \E w \in Workers : WorkerAddAssistant(w) /\ GuiOther
    \/ \E w \in Workers : WorkerPutComplete(w) /\ GuiOther
    \/ ProcessMessages /\ GuiOther

InitGui == GuiInit /\ ChunkerIdle /\ RagIdle /\ ClassifierIdle /\ ChatIdle /\ TranscriptIdle /\ SearchIdle /\ ProcessorIdle /\ ExecutorIdle /\ RecentIdle /\ StreamIdle /\ SolverIdle /\ ManagerIdle
SpecGui == InitGui /\ [][GuiNext]_vars

\* The state after load_model("a.gguf") when the background load has succeeded
\* and process_messages has emptied the queue
GuiLoaded ==
    /\ g_llm = TRUE
    /\ g_session = "ChatSession"
    /\ g_messages = <<>>
    /\ g_queue = <<>>
    /\ g_send_btn = "normal"
    /\ g_status = "Loading model..."
    /\ g_current_response = NoResponse
    /\ g_chat_text = <<ChatLine("system", <<"Loading model">>)>>
    /\ g_recent_models = <<"a.gguf">>
    /\ g_config = [recent_models |-> <<"a.gguf">>, last_model |-> "a.gguf"]
    /\ g_loader = "idle"
    /\ g_sends = 0
    /\ g_loads = 1
    /\ w_pc = [w \in Workers |-> "idle"]
    /\ w_message = [w \in Workers |-> <<>>]
    /\ w_plan = [w \in Workers |-> <<>>]
    /\ w_parts = [w \in Workers |-> <<>>]

\* the application with or without a loaded model
GuiFairInit == (GuiStart \/ GuiLoaded) /\ g_rag \in BOOLEAN

\* what the user types and what the model streams: an empty reply or a piece
FairTexts == {<<"hello">>}
FairPlans == {<<>>, <<"Sure.">>}

\* a step of worker thread w
WorkerStep(w) ==
    \/ WorkerAddUser(w)
    \/ \E plan \in FairPlans : WorkerRespond(w, plan)
    \/ WorkerStreamPiece(w)
    \/ WorkerStreamRaises(w)
    \/ WorkerAddAssistant(w)
    \/ WorkerPutComplete(w)

GuiFairNext ==
    \/ \E message \in FairTexts, via \in {"button", "key"} :
           SendMessage(message, via) /\ GuiOther
    \/ \E w \in Workers : WorkerStep(w) /\ GuiOther
    \/ ProcessMessages /\ GuiOther

InitGuiFair == GuiFairInit /\ ChunkerIdle /\ RagIdle /\ ClassifierIdle /\ ChatIdle /\ TranscriptIdle /\ SearchIdle /\ ProcessorIdle /\ ExecutorIdle /\ RecentIdle /\ StreamIdle /\ SolverIdle /\ ManagerIdle

\* The worker threads are scheduled fairly and the 100 ms poll of
\* process_messages keeps running; a stream ends or faults.
SpecGuiFair ==
    /\ InitGuiFair
    /\ [][GuiFairNext]_vars
    /\ \A w \in Workers : WF_vars(WorkerStep(w) /\ GuiOther)
    /\ WF_vars(ProcessMessages /\ GuiOther)

SearchOther == UNCHANGED <<chunkerVars, ragVars, classifierVars, chatVars, transcriptVars, guiVars, processorVars, executorVars, recentVars, streamVars, solverVars, managerVars>>

SearchNext ==
    \E n_results \in NResults, encode_ok \in BOOLEAN : Search(n_results, encode_ok) /\ SearchOther

InitSearch == SearchInit /\ ChunkerIdle /\ RagIdle /\ ClassifierIdle /\ ChatIdle /\ TranscriptIdle /\ GuiIdle /\ ProcessorIdle /\ ExecutorIdle /\ RecentIdle /\ StreamIdle /\ SolverIdle /\ ManagerIdle
SpecSearch == InitSearch /\ [][SearchNext]_vars

ProcessorNext == ProcessFile /\ UNCHANGED <<chunkerVars, ragVars, classifierVars, chatVars, transcriptVars, guiVars, searchVars, executorVars, recentVars, streamVars, solverVars, managerVars>>

InitProcessor == ProcessorInit /\ ChunkerIdle /\ RagIdle /\ ClassifierIdle /\ ChatIdle /\ TranscriptIdle /\ GuiIdle /\ SearchIdle /\ ExecutorIdle /\ RecentIdle /\ StreamIdle /\ SolverIdle /\ ManagerIdle
SpecProcessor == InitProcessor /\ [][ProcessorNext]_vars

ChunkerConfigOther == UNCHANGED <<ragVars, classifierVars, chatVars, transcriptVars, guiVars, searchVars, processorVars, executorVars, recentVars, streamVars, solverVars, managerVars>>

ChunkerConfigNext ==
    \/ \E chunk_size \in 1..MaxChunkSize, overlap \in 0..(MaxChunkSize + 1) :
           TextChunkerNew(chunk_size, overlap) /\ ChunkerConfigOther
    \/ ChunkTextAnyStep /\ ChunkerConfigOther

InitChunkerConfig == ChunkerConfigInit /\ RagIdle /\ ClassifierIdle /\ ChatIdle /\ TranscriptIdle /\ GuiIdle /\ SearchIdle /\ ProcessorIdle /\ ExecutorIdle /\ RecentIdle /\ StreamIdle /\ SolverIdle /\ ManagerIdle
SpecChunkerConfig == InitChunkerConfig /\ [][ChunkerConfigNext]_vars

ExecutorOther == UNCHANGED <<chunkerVars, ragVars, classifierVars, chatVars, transcriptVars, guiVars, searchVars, processorVars, recentVars, streamVars, solverVars, managerVars>>

ExecutorNext ==
    \/ \E path_arg \in PathArgs, permanent \in BOOLEAN, outcome \in SubprocessOutcomes :
           AddToPath(path_arg, permanent, outcome) /\ ExecutorOther
    \/ \E outcome \in SubprocessOutcomes : InstallPythonPackage(outcome) /\ ExecutorOther
    \/ \E outcome \in SubprocessOutcomes : CreateVirtualEnvironment(outcome) /\ ExecutorOther
    \/ \E outcome \in SubprocessOutcomes : RunCommand(outcome) /\ ExecutorOther

InitExecutor == ExecutorInit /\ ChunkerIdle /\ RagIdle /\ ClassifierIdle /\ ChatIdle /\ TranscriptIdle /\ GuiIdle /\ SearchIdle /\ ProcessorIdle /\ RecentIdle /\ StreamIdle /\ SolverIdle /\ ManagerIdle
SpecExecutor == InitExecutor /\ [][ExecutorNext]_vars

RecentOther == UNCHANGED <<chunkerVars, ragVars, classifierVars, chatVars, transcriptVars, guiVars, searchVars, processorVars, executorVars, streamVars, solverVars, managerVars>>

RecentNext ==
    \/ \E last_exists \in BOOLEAN : StartApp(last_exists) /\ RecentOther
    \/ \E model_path \in ModelFiles : DesktopLoadModel(model_path) /\ RecentOther
    \/ CloseApp /\ RecentOther

InitRecent == RecentInit /\ ChunkerIdle /\ RagIdle /\ ClassifierIdle /\ ChatIdle /\ TranscriptIdle /\ GuiIdle /\ SearchIdle /\ ProcessorIdle /\ ExecutorIdle /\ StreamIdle /\ SolverIdle /\ ManagerIdle
SpecRecent == InitRecent /\ [][RecentNext]_vars

StreamOther == UNCHANGED <<chunkerVars, ragVars, classifierVars, chatVars, transcriptVars, guiVars, searchVars, processorVars, executorVars, recentVars, solverVars, managerVars>>

StreamNext ==
    \/ \E full_response \in FullResponses : EnhancedResponse(full_response) /\ StreamOther
    \/ \E plan \in StreamPlans : StandardResponse(plan) /\ StreamOther
    \/ PutStream /\ StreamOther
    \/ PutComplete /\ StreamOther
    \/ GetMessage /\ StreamOther

InitStream == StreamInit /\ ChunkerIdle /\ RagIdle /\ ClassifierIdle /\ ChatIdle /\ TranscriptIdle /\ GuiIdle /\ SearchIdle /\ ProcessorIdle /\ ExecutorIdle /\ RecentIdle /\ SolverIdle /\ ManagerIdle
SpecStream == InitStream /\ [][StreamNext]_vars

SolverOther == UNCHANGED <<chunkerVars, ragVars, classifierVars, chatVars, transcriptVars, guiVars, searchVars, processorVars, executorVars, recentVars, streamVars, managerVars>>

SolverNext ==
    \/ \E task_description \in TaskDescriptions, env \in SolverEnvs :
           SolveTask(task_description, env) /\ SolverOther
    \/ NextTask /\ SolverOther

InitSolver == SolverInit /\ ChunkerIdle /\ RagIdle /\ ClassifierIdle /\ ChatIdle /\ TranscriptIdle /\ GuiIdle /\ SearchIdle /\ ProcessorIdle /\ ExecutorIdle /\ RecentIdle /\ StreamIdle /\ ManagerIdle
SpecSolver == InitSolver /\ [][SolverNext]_vars

ManagerOther == UNCHANGED <<chunkerVars, ragVars, classifierVars, chatVars, transcriptVars, guiVars, searchVars, processorVars, executorVars, recentVars, streamVars, solverVars>>

ManagerNext ==
    \/ \E p \in ManagerPaths : ManagerAddDocument(p) /\ ManagerOther
    \/ \E selected_doc \in {Last(p) : p \in ManagerPaths} :
           DeleteSelectedDocument(selected_doc) /\ ManagerOther

InitManager == ManagerInit /\ ChunkerIdle /\ RagIdle /\ ClassifierIdle /\ ChatIdle /\ TranscriptIdle /\ GuiIdle /\ SearchIdle /\ ProcessorIdle /\ ExecutorIdle /\ RecentIdle /\ StreamIdle /\ SolverIdle
SpecManager == InitManager /\ [][ManagerNext]_vars

(***************************************************************************)
(* Claims: TextChunker                                                     *)
(***************************************************************************)
ChunkerDone == ck_pc = "done" /\ ck_words >= 1

\* C3 (as stated): a text of N >= 1 words yields exactly
\* max(1, ceil((N - O) / (S - O))) chunks.
C3_ChunkCountAsStated ==
    ChunkerDone =>
        Len(ck_chunks) = Max(1, CeilDiv(ck_words - ck_overlap, ck_size - ck_overlap))

\* C3 (amended): a text of N >= 1 words yields exactly ceil(N / (S - O)) chunks,
\* one per window start 0, S-O, 2(S-O), ... below N.
C3_ChunkCount ==
    ChunkerDone => Len(ck_chunks) = CeilDiv(ck_words, ck_size - ck_overlap)

\* A text whose last window starts inside the previous window's reach: the
\* stated formula and the loop's count differ here.
C3_Witness ==
    /\ ChunkerDone
    /\ Len(ck_chunks) >= 2
    /\ ck_chunks[Len(ck_chunks) - 1].end_word = ck_words

C14_ConfigurationValidated == ck_pc # "new" => ck_overlap < ck_size

(***************************************************************************)
(* Claims: RAGSystem                                                       *)
(***************************************************************************)
\* C1: a further add_document(p) for a path that was successfully added and not
\* deleted or cleared since returns success=false and leaves the stored chunks
\* (ids and count) unchanged.
C1_AtMostOnceIngestion ==
    [][\A t \in Threads :
          (t_pc[t] # "done" /\ t_pc'[t] = "done" /\ since_live'[t])
              => (~t_result'[t].success /\ store' = store)]_vars

\* C2: delete_document(p) after an accepted add_document(p) of k chunks returns
\* success with chunks_deleted = k, the chunk count drops by exactly k, and no
\* chunk with the document's path remains.
C2_DeletionCompleteness ==
    [][\A p \in RawPaths :
          (DeleteDocument(p) /\ ingested[p] > 0)
              => /\ del_result'.success
                 /\ del_result'.chunks_deleted = ingested[p]
                 /\ Cardinality(store') = Cardinality(store) - ingested[p]
                 /\ ~\E c \in store' : c.path = PathStr(p)]_vars

\* The chunks stored under one document id form one chunk set: ordinals
\* 0..n-1, each once.
OneChunkSet(p) ==
    LET mine == {c \in store : c.id.prefix = md5(p)}
    IN  /\ mine # {}
        /\ {c.chunk_index : c \in mine} = 0..(Cardinality(mine) - 1)

\* C7: of two add_document(p) calls that ran concurrently, at most one returned
\* success=true, and the store holds exactly one chunk set for p.
C7_ConcurrentDedup ==
    \A t, u \in Threads :
        (/\ t # u
         /\ t_pc[t] = "done" /\ t_pc[u] = "done"
         /\ overlapped[t] /\ overlapped[u]
         /\ t_path[t] = t_path[u])
            => /\ ~(t_result[t].success /\ t_result[u].success)
               /\ (t_result[t].success \/ t_result[u].success) => OneChunkSet(t_path[t])

\* The stored chunks whose id starts with the document id
ChunkSetOf(doc_id) == {c \in store : c.id.prefix = doc_id}

OccursIgnoringCase(keyword, text) ==
    \E i \in 0..(Len(text) - Len(keyword)) :
        \A j \in 1..Len(keyword) : CharLower(text[i + j]) = CharLower(keyword[j])

KeywordSetInOrder == <<PathKeywords, PythonKeywords, PackageKeywords, CommandKeywords>>
TypeInOrder == <<"path_addition", "python_setup", "package_installation", "system_command">>
ConfidenceInOrder == <<"0.9", "0.8", "0.8", "0.7">>

MatchingSets(text) ==
    {k \in 1..4 : \E kw \in KeywordSetInOrder[k] : OccursIgnoringCase(kw, text)}

\* C6: _analyze_task returns the type of the first keyword set, in the order
\* path_addition, python_setup, package_installation, system_command, that has a
\* keyword occurring case-insensitively in the text, with confidence 0.9, 0.8,
\* 0.8, 0.7, and (unknown, 0.0) when no set matches; a text mentioning both
\* "path" and "install" is a path_addition.
C6_ClassifierResult ==
    cl_pc = "done" =>
        LET m == MatchingSets(cl_text)
            first == CHOOSE k \in m : \A o \in m : k <= o
        IN  /\ m = {} => cl_analysis = Analysis("unknown", "0.0")
            /\ m # {} => cl_analysis = Analysis(TypeInOrder[first], ConfidenceInOrder[first])
            /\ (/\ OccursIgnoringCase(<<"p", "a", "t", "h">>, cl_text)
                /\ OccursIgnoringCase(<<"i", "n", "s", "t", "a", "l", "l">>, cl_text))
                  => cl_analysis.task_type = "path_addition"

\* A classified text that mentions "Path" and "Install", in this letter case.
C6_Witness ==
    /\ cl_pc = "done"
    /\ Contains(<<"I", "n", "s", "t", "a", "l", "l">>, cl_text)
    /\ Contains(<<"P", "a", "t", "h">>, cl_text)
    /\ cl_analysis = Analysis("path_addition", "0.9")

(***************************************************************************)
(* Claims: EnhancedChatSession                                             *)
(***************************************************************************)
\* The step is a get_enhanced_response call
CallStep == ch_call'.n = ch_call.n + 1

\* One of the two diagnostic strings of lines 87 and 146
IsDiagnostic(response) ==
    /\ Len(response) = 2
    /\ response[1] \in {"I encountered an error while processing your request: ",
                        "Error processing task: "}

\* The solver or the stream raised during the call
SolverOrStreamRaised(call) == call.fault \in {"solver", "stream"}

\* C9: when the task solver or the streaming completion raises during
\* get_enhanced_response, the call returns a diagnostic string instead of raising,
\* the failing user message is still in the history, completed_tasks and
\* recent_searches are unchanged; and the turn that follows such a call, when
\* nothing raises in it, ends with its own reply as the last assistant message.
C9_FailedTurnNotFatal ==
    [][/\ (CallStep /\ SolverOrStreamRaised(ch_call')) =>
            /\ ~ch_ret'.raised
            /\ IsDiagnostic(ch_ret'.response)
            /\ \E i \in 1..Len(ch_messages') :
                   ch_messages'[i] = Message("user", ch_call'.message)
            /\ ch_completed_tasks' = ch_completed_tasks
            /\ ch_recent_searches' = ch_recent_searches
       /\ (CallStep /\ SolverOrStreamRaised(ch_call) /\ ch_call'.fault = "none") =>
            /\ ~ch_ret'.raised
            /\ ~IsDiagnostic(ch_ret'.response)
            /\ Last(ch_messages') = Message("assistant", ch_ret'.response)
            /\ ch_messages'[Len(ch_messages') - 1] = Message("user", ch_call'.message)
      ]_vars

\* A turn without a fault has been handled right after a turn in which the
\* solver or the stream raised.
C9_Witness ==
    /\ ch_call.n >= 2
    /\ ch_call.prev_fault \in {"solver", "stream"}
    /\ ch_call.fault = "none"
    /\ ch_pc = "idle"
    /\ Len(ch_messages) = 4

\* C10: completed_tasks gets one entry appended exactly in a step that is a
\* task-path call whose solve_task result has success = true; every other step
\* (failed task, raising solver, answer path, add_user, search) leaves the list
\* as it is.
C10_CompletedTasksOnlyOnSuccess ==
    [][IF CallStep /\ is_task_request(ch_call'.message) /\ ch_call'.solved.success
         THEN /\ Len(ch_completed_tasks') = Len(ch_completed_tasks) + 1
              /\ SubSeq(ch_completed_tasks', 1, Len(ch_completed_tasks)) = ch_completed_tasks
              /\ Last(ch_completed_tasks').task = ch_call'.message
              /\ Last(ch_completed_tasks').result.success
         ELSE ch_completed_tasks' = ch_completed_tasks
      ]_vars

\* A successful task turn has been recorded and a failed one after it has not.
C10_Witness ==
    /\ Len(ch_completed_tasks) = 1
    /\ ch_call.n = 2
    /\ is_task_request(ch_call.message)
    /\ ~ch_call.solved.raises
    /\ ~ch_call.solved.success
    /\ ch_call.solved # NotCalled

(***************************************************************************)
(* Claims: transcript                                                      *)
(***************************************************************************)
\* C5: after ChatSession.save and load_conversation of the saved file the session
\* holds the messages it held when it was saved, same roles and contents in the
\* same order.
C5_TranscriptRoundTrip == tr_pc = "loaded" => tr_messages = tr_saved

\* What load_conversation does restore: the chat area shows the saved messages.
TranscriptShownAfterLoad == tr_pc \in {"loaded", "failed"} => tr_chat_text = Shown(tr_saved)

(***************************************************************************)
(* Claims: DesktopApp.process_llm_request                                  *)
(***************************************************************************)
\* The history is user, assistant, user, assistant, ...
Alternating(messages) ==
    /\ Len(messages) % 2 = 0
    /\ \A i \in 1..Len(messages) :
           messages[i].role = (IF i % 2 = 1 THEN "user" ELSE "assistant")

\* C8: when process_llm_request publishes ('complete', reply), the last message
\* of the session history is the assistant message holding that reply and the
\* history alternates user and assistant messages.
C8_HistoryCompletedEveryTurn ==
    [][\A w \in Workers :
          WorkerPutComplete(w) =>
             /\ g_messages' # <<>>
             /\ Last(g_messages') = Message("assistant", w_parts[w])
             /\ Alternating(g_messages')
      ]_vars

\* The same for a return from stream_enhanced_chat, which does append the reply.
StreamEnhancedChatCompletesHistory ==
    (ch_pc = "idle" /\ ch_call.n >= 1) =>
        /\ Last(ch_messages) = Message("assistant", ch_ret.response)
        /\ Alternating(ch_messages)

(***************************************************************************)
(* Claims: RAGSystem.search                                                *)
(***************************************************************************)
\* C12: whatever the store holds, a search call returns its results in
\* non-decreasing distance order; when the index delivered an answer the
\* result is that answer, id by id in the same order with each chunk's
\* distance; and a search on an empty store returns the empty list.
C12_SearchOrdering ==
    sr_outcome # "none" =>
        /\ \A i \in 1..(Len(sr_results) - 1) :
               sr_results[i].distance <= sr_results[i + 1].distance
        /\ sr_outcome = "returned" =>
               /\ Len(sr_results) = Len(sr_delivered)
               /\ \A i \in 1..Len(sr_results) :
                      /\ sr_results[i].id = sr_delivered[i]
                      /\ sr_results[i].distance = sr_dist[sr_delivered[i]]
        /\ sr_store = {} => sr_results = <<>>

\* Three chunks at three different distances have been returned.
C12_Witness ==
    /\ sr_outcome = "returned"
    /\ Len(sr_results) = 3
    /\ sr_results[1].distance < sr_results[2].distance
    /\ sr_results[2].distance < sr_results[3].distance

(***************************************************************************)
(* Claims: DocumentProcessor.process_file                                  *)
(***************************************************************************)
\* The outcome process_file returns for an existing file of the same type whose
\* extracted text is blank
BlankOutcome(file) ==
    process_file_dict([file EXCEPT !.unreadable = "none", !.text = <<>>])

\* C13: for an existing file of a supported type whose extraction raises,
\* process_file returns an error that differs from the one returned for a
\* blank file.
C13_ExtractionFailureReported ==
    (/\ pf_pc = "done"
     /\ pf_file.exists
     /\ pf_file.suffix \in SupportedSuffixes
     /\ pf_file.unreadable # "none") =>
        /\ pf_result.error # ""
        /\ pf_result # BlankOutcome(pf_file)

(***************************************************************************)
(* Claims: TaskExecutor                                                    *)
(***************************************************************************)
\* The entries of a PATH string, split at the platform's separator
RECURSIVE SplitPath(_, _, _, _)
SplitPath(chars, sep, entry, entries) ==
    IF chars = <<>> THEN entries \cup {entry}
    ELSE IF Head(chars) = sep THEN SplitPath(Tail(chars), sep, <<>>, entries \cup {entry})
    ELSE SplitPath(Tail(chars), sep, Append(entry, Head(chars)), entries)

PathEntries == SplitPath(ex_path, IF ex_is_windows THEN ";" ELSE ":", <<>>, {})

\* C15: add_to_path(p) for an existing p returns success with already_exists and
\* changes nothing when the resolved p is an entry of PATH, and does not report
\* already_exists when it is not an entry.
C15_AddToPathNoOpExactlyIfPresent ==
    [][\A path_arg \in PathArgs, permanent \in BOOLEAN, outcome \in SubprocessOutcomes :
          (AddToPath(path_arg, permanent, outcome) /\ path_exists(resolve(path_arg))) =>
             IF resolve(path_arg) \in PathEntries
               THEN /\ ex_result'.success
                    /\ ex_result'.already_exists
                    /\ UNCHANGED <<ex_path, ex_machine_path, ex_profile>>
               ELSE ~ex_result'.already_exists
      ]_vars

\* C16: every executor operation returns a result; none is left blocked on its
\* subprocess.
C16_EveryOperationReturns == ~ex_result.blocked

(***************************************************************************)
(* Claims: DesktopApp recent models                                        *)
(***************************************************************************)

\* the position of the latest load of model path x in the loads made so far,
\* 0 when x was never loaded
LastLoadOf(x) ==
    LET at == {i \in 1..Len(rm_history) : rm_history[i] = x}
    IN IF at = {} THEN 0 ELSE CHOOSE i \in at : \A j \in at : j <= i

LoadedModelFiles == {rm_history[i] : i \in 1..Len(rm_history)}

C18_PlainFragmentsReproduceReply ==
    (st_completed /\ st_path = "plain") => st_current_response = st_complete

(***************************************************************************)
(* Claims: partial output and the task hint                                *)
(***************************************************************************)

\* pieces occur in text, in order and next to each other
Retains(text, pieces) ==
    \E k \in 0..(Len(text) - Len(pieces)) : SubSeq(text, k + 1, k + Len(pieces)) = pieces

\* C19: when the stream raised after some pieces, the pieces received are
\* part of what get_enhanced_response returned or of the assistant message the
\* session recorded for the turn.
C19_PartialOutputRetained ==
    (ch_call.n >= 1 /\ ch_call.fault = "stream") =>
        \/ Retains(ch_ret.response, ch_call.streamed)
        \/ /\ Last(ch_messages).role = "assistant"
           /\ Retains(Last(ch_messages).content, ch_call.streamed)

\* C19, desktop worker: when llm.stream_chat raises after some pieces, the
\* session records them in an assistant message.
C19_WorkerRecordsPartialOutput ==
    [][\A w \in Workers :
          (WorkerStreamRaises(w) /\ w_parts[w] # <<>>) =>
              /\ g_messages' # <<>>
              /\ Last(g_messages').role = "assistant"
              /\ Retains(Last(g_messages').content, w_parts[w])]_vars

HintAppended == \E i \in 1..Len(ch_ret.response) : ch_ret.response[i] = TaskHint

TaskKeywordTurn ==
    ch_call.n >= 1 /\ ch_enabled.task /\ is_task_request(ch_call.message)

\* C20: with task automation enabled there are turns whose message matches a
\* task keyword and that are answered through the answer path, and the reply
\* of each carries the task hint: a turn on a task-keyword message is
\* answered through the answer path with the hint appended.
C20_TaskHintAppended ==
    TaskKeywordTurn => (ch_call.path = "answer" /\ HintAppended)

\* C20, first half alone: a task-keyword turn answered through the answer
\* path carries the hint
C20_HintOnAnswerPath ==
    (TaskKeywordTurn /\ ch_call.path = "answer") => HintAppended

\* C20, second half refuted: no turn on a task-keyword message takes the
\* answer path, and no reply ever carries the hint
C20_HintBranchUnreachable ==
    /\ TaskKeywordTurn => ch_call.path = "task"
    /\ ~HintAppended

(***************************************************************************)
(* Claims: knowledge-base attribution                                      *)
(***************************************************************************)

NoteAppended == \E i \in 1..Len(ch_ret.response) : ch_ret.response[i] = AttributionNote

\* C21: on the answer path the reply carries the attribution note only when
\* the reply mentions the knowledge base and the context of the turn was not
\* empty; a turn whose retrieval returned nothing never gets the note.
C21_AttributionOnlyWithContext ==
    (ch_call.n >= 1 /\ ch_call.path = "answer" /\ NoteAppended) =>
        (MentionsKnowledgeBase(ch_call.streamed) /\ ch_call.context # "")

(***************************************************************************)
(* Claims: classifier keywords                                             *)
(***************************************************************************)

\* the keyword set _analyze_task lists for a task type
KeywordsOf(type) ==
    IF type = "path_addition" THEN PathKeywords
    ELSE IF type = "python_setup" THEN PythonKeywords
    ELSE IF type = "package_installation" THEN PackageKeywords
    ELSE CommandKeywords

\* request texts that contain keyword k: k alone, and k with a word of the
\* vocabulary before or after it
TextsWith(k) ==
    {k} \cup {JoinWords(<<w, k>>) : w \in Vocabulary}
        \cup {JoinWords(<<k, w>>) : w \in Vocabulary}

Effective(type, k) ==
    \E text \in TextsWith(k) :
        /\ Contains(k, str_lower(text))
        /\ analyze_task(text).task_type = type

\* C23: for each keyword k listed for a task type T there is a request text
\* containing k that _analyze_task classifies as T.
C23_EveryKeywordEffective ==
    cl_pc = "done" =>
        \A type \in {"path_addition", "python_setup", "package_installation",
                      "system_command"} :
            \A k \in KeywordsOf(type) : Effective(type, k)

\* C23, the keywords that are shadowed: every text containing one of them
\* contains a keyword of a set tested earlier
ShadowedKeywords ==
    {<<"v", "e", "n", "v">>,
     <<"v", "i", "r", "t", "u", "a", "l", " ", "e", "n", "v", "i", "r", "o", "n", "m", "e", "n", "t">>,
     <<"p", "i", "p", " ", "i", "n", "s", "t", "a", "l", "l">>}

\* C23, what holds: the listed keywords other than the shadowed ones are
\* effective, and a classified text that contains a shadowed keyword never
\* has the type the keyword is listed for
C23_AllButShadowedEffective ==
    cl_pc = "done" =>
        /\ \A type \in {"path_addition", "python_setup", "package_installation",
                         "system_command"} :
               \A k \in KeywordsOf(type) \ ShadowedKeywords : Effective(type, k)
        /\ \A type \in {"python_setup", "package_installation"} :
               \A k \in KeywordsOf(type) \cap ShadowedKeywords :
                   Contains(k, str_lower(cl_text)) => cl_analysis.task_type # type

(***************************************************************************)
(* Claims: TaskSolver                                                      *)
(***************************************************************************)

ParameterResolvers == {"path_addition", "package_installation", "system_command"}

\* C22: when the path_addition, package_installation or system_command
\* resolver extracts no parameter candidate from the request text, it returns
\* success=false with an error and a non-empty suggestions list and calls no
\* Task Executor operation.
C22_ExtractionFailureNeverActs ==
    (sv_pc = "done" /\ sv_type \in ParameterResolvers /\ sv_candidates = 0) =>
        /\ ~sv_result.success
        /\ sv_result.error # ""
        /\ sv_result.suggestions # <<>>
        /\ sv_calls = <<>>

\* the path resolver has run on a two-word text without a candidate
C22_Witness ==
    /\ sv_pc = "done"
    /\ sv_type = "path_addition"
    /\ sv_candidates = 0
    /\ Len(split(sv_task, <<>>, <<>>)) = 2
    /\ sv_calls = <<>>

\* C24: when solve_task returns success=true with task_solved=true, every
\* Task Executor operation it called for the request returned success=true.
C24_SuccessOnlyForWorkThatSucceeded ==
    (sv_pc = "done" /\ sv_result.success /\ sv_result.task_solved) =>
        \A i \in 1..Len(sv_calls) : sv_calls[i].success

\* C24, the resolvers other than python_setup: success is the success of the
\* one executor operation called
C24_OtherResolversReportTheOperation ==
    (sv_pc = "done" /\ sv_type # "python_setup" /\ sv_result.success) =>
        /\ sv_result.task_solved
        /\ Len(sv_calls) = 1
        /\ sv_calls[1].success

(***************************************************************************)
(* Claims: desktop application, workers and the queue                      *)
(***************************************************************************)

\* C25: with the RAG system and the task solver initialised, a message sent
\* with send_message does not lead to an 'error' item: the only 'error' items
\* on the queue are those of a model load that failed.
C25_EnhancedPathUsable ==
    g_rag =>
        \A i \in 1..Len(g_queue) :
            g_queue[i].type = "error" => g_queue[i].content = <<"Failed to load model">>

AllWorkersIdle == \A w \in Workers : w_pc[w] = "idle"

\* C26: when every turn's terminating item ('complete' or 'error') has been
\* processed, no current_response buffer remains.
C26_StreamingStateReturnsToIdle ==
    (g_queue = <<>> /\ AllWorkersIdle) => g_current_response = NoResponse

\* C26, the 'complete' item alone: processing it removes the buffer
C26_CompleteClearsBuffer ==
    [][(ProcessMessages /\ Last(g_queue).type = "complete")
          => g_current_response' = NoResponse]_vars

\* C27: once the items published by a successful background model load have
\* been taken from the queue, the status shows 'Ready - Model loaded' (no
\* message has been sent since).
C27_LoadStatusApplied ==
    (g_llm /\ g_loader = "idle" /\ g_queue = <<>> /\ g_sends = 0) =>
        g_status = "Ready - Model loaded"

\* C28: at most one process_llm_request worker is running at any time.
C28_AtMostOneWorker ==
    Cardinality({w \in Workers : w_pc[w] # "idle"}) <= 1

(***************************************************************************)
(* Claims: KnowledgeBaseManager                                            *)
(***************************************************************************)

\* C29: Delete Selected on a listed entry makes delete_document return
\* success=true, removes every chunk of the document the entry stands for,
\* and the entry is no longer listed after the refresh.
C29_DeleteSelectedRemovesDocument ==
    [][\A selected_doc \in km_listbox :
          DeleteSelectedDocument(selected_doc) =>
              /\ km_result'.success
              /\ ~\E c \in km_store' : c.name = selected_doc
              /\ selected_doc \notin km_listbox']_vars

\* C29, a document whose stored path is its bare file name: Delete Selected
\* removes its chunks
C29_BareNameDeleted ==
    [][\A selected_doc \in km_listbox :
          (DeleteSelectedDocument(selected_doc)
              /\ \E c \in km_store : c.path = <<selected_doc>>)
          => /\ km_result'.success
             /\ ~\E c \in km_store' : c.path = <<selected_doc>>]_vars

\* C30: whenever the Send button is disabled it is eventually enabled again.
C30_SendButtonReenabled ==
    (g_send_btn = "disabled") ~> (g_send_btn = "normal")

\* a turn of a loaded model ended with 'error' and the button is enabled again
C30_Witness ==
    /\ g_sends >= 1
    /\ g_llm
    /\ g_status = "Error occurred"
    /\ g_send_btn = "normal"
    /\ g_queue = <<>>
    /\ AllWorkersIdle

====
